---- MODULE Spec2Model ----
(***************************************************************************)
(* A model of the learned-memory invoice pipeline: the confidence module,  *)
(* the SQLite-backed memory repository, Recall, Apply, purchase-order      *)
(* matching, Decide, Learn and the InvoiceProcessor that sequences them.   *)
(*                                                                         *)
(* Numbers.  Confidences are IEEE doubles in the source; those of the      *)
(* memories are fixed-point integers here, in units of 1/Scale (one        *)
(* millionth), products rounded down; the scores of purchase orders are    *)
(* kept as exact doubles.  Dates are integers in ticks of 1/TicksPerDay of *)
(* a day.  Strings on which the code computes (vendor names, the raw text  *)
(* and what the regular expressions read from it, values) are sequences of *)
(* one-character strings; strings the code only compares are TLA+ strings. *)
(* Timestamps createdAt/lastUsedAt are written but never read by any       *)
(* service and are left out of the memory records.                         *)
(***************************************************************************)
EXTENDS Integers, Sequences, FiniteSets, TLC

(***************************************************************************)
(* Bounds of the model.                                                    *)
(***************************************************************************)
\* calls (processInvoice, learnFromFeedback and those of the repository) in one
\* behaviour of Spec
MaxCalls == 4
\* rows of resolution_memories in one behaviour of Spec
MaxResolutionMemories == 2
\* calls in one behaviour of SpecVendor
MaxVendorCalls == 8
\* process-then-feedback cycles in one behaviour of SpecCycle
MaxCycles == 45
\* calls of one behaviour of SpecRoundTrip
MaxRoundTripCalls == 23
\* applications of applyReinforcement in one behaviour of SpecConfidence
MaxReinforcements == 60
\* processInvoice calls in one behaviour of SpecDecision
MaxDecisionCalls == 2
MaxReprocessCalls == 5
MaxDuplicateCalls == 4
MaxGlobalCalls == 3
MaxOrders == 3
\* processInvoice calls in one behaviour of SpecPO
MaxPOCalls == 1
MaxAlternateCalls == 7
MaxPendingPasses == 4
MaxPendingCalls == 9

(***************************************************************************)
(* Fixed point.                                                            *)
(***************************************************************************)
Scale == 1000 * 1000

Min(a, b) == IF a <= b THEN a ELSE b
Max(a, b) == IF a >= b THEN a ELSE b
Abs(a) == IF a >= 0 THEN a ELSE 0 - a

\* a * b for two fixed-point numbers; b is taken to the thousandth so that the
\* intermediate product stays within 32 bits
MulFix(a, b) == (a * (b \div 1000)) \div 1000

(***************************************************************************)
(* IEEE doubles.  The score of a purchase order is compared with 0.5 and   *)
(* 0.7 and with the scores of the other orders, where the rounding of the  *)
(* double arithmetic decides; these doubles are kept exactly.  A natural   *)
(* number is the sequence of its digits in base Base, the lowest first and *)
(* no zero as the highest; a double d >= 0 is the natural d * Base^5.       *)
(***************************************************************************)
Base == 2 ^ 15

RECURSIVE natOf(_)
natOf(k) == IF k = 0 THEN <<>> ELSE <<k % Base>> \o natOf(k \div Base)

\* n without zeros as its highest digits
strip(n) ==
  LET used == {i \in 1..Len(n) : n[i] # 0}
  IN SubSeq(n, 1, IF used = {} THEN 0 ELSE CHOOSE i \in used : \A j \in used : j <= i)

\* a + b, from digit i on
RECURSIVE addFrom(_, _, _, _)
addFrom(a, b, i, carry) ==
  IF i > Len(a) /\ i > Len(b) THEN natOf(carry)
  ELSE LET sum == (IF i <= Len(a) THEN a[i] ELSE 0) + (IF i <= Len(b) THEN b[i] ELSE 0) + carry
       IN <<sum % Base>> \o addFrom(a, b, i + 1, sum \div Base)

\* a - b for a >= b, from digit i on
RECURSIVE subFrom(_, _, _, _)
subFrom(a, b, i, borrow) ==
  IF i > Len(a) THEN <<>>
  ELSE LET difference == a[i] - (IF i <= Len(b) THEN b[i] ELSE 0) - borrow
       IN <<(difference + Base) % Base>>
          \o subFrom(a, b, i + 1, IF difference < 0 THEN 1 ELSE 0)

\* a * k for a digit k, from digit i on
RECURSIVE mulDigitFrom(_, _, _, _)
mulDigitFrom(a, k, i, carry) ==
  IF i > Len(a) THEN natOf(carry)
  ELSE LET product == a[i] * k + carry
       IN <<product % Base>> \o mulDigitFrom(a, k, i + 1, product \div Base)

\* a * Base^n
shiftDigits(a, n) == IF a = <<>> THEN <<>> ELSE [i \in 1..n |-> 0] \o a

\* a * b, from digit i of b on
RECURSIVE mulFrom(_, _, _)
mulFrom(a, b, i) ==
  IF i > Len(b) THEN <<>>
  ELSE LET rest == mulFrom(a, b, i + 1)
           here == shiftDigits(strip(mulDigitFrom(a, b[i], 1, 0)), i - 1)
       IN IF rest = <<>> THEN here ELSE addFrom(here, rest, 1, 0)

\* the quotient and the remainder of a by d, 0 < d < Base, from digit i down
RECURSIVE divFrom(_, _, _, _)
divFrom(a, d, i, r) ==
  IF i = 0 THEN [q |-> <<>>, r |-> r]
  ELSE LET x == r * Base + a[i]
       IN IF x < d
          THEN LET rest == divFrom(a, d, i - 1, x)
               IN [q |-> rest.q \o <<0>>, r |-> rest.r]
          ELSE LET rest == divFrom(a, d, i - 1, x % d)
               IN [q |-> rest.q \o <<x \div d>>, r |-> rest.r]

\* -1, 0 or 1 as a is less than, equal to or greater than b: the highest
\* digit in which they differ decides
compare(a, b) ==
  IF Len(a) # Len(b) THEN (IF Len(a) > Len(b) THEN 1 ELSE 0 - 1)
  ELSE LET differ == {i \in 1..Len(a) : a[i] # b[i]}
       IN IF differ = {} THEN 0
          ELSE LET top == CHOOSE i \in differ : \A j \in differ : j <= i
               IN IF a[top] > b[top] THEN 1 ELSE 0 - 1

\* the number of bits of a digit, and a * 2^s and a \div 2^s: every digit
\* gives its high bits to the next digit, or takes the low bits of it
RECURSIVE bits(_)
bits(x) == IF x = 0 THEN 0 ELSE 1 + bits(x \div 2)
shiftLeft(a, s) ==
  LET k == s % 15
  IN shiftDigits(strip([i \in 1..(Len(a) + 1) |->
                          (IF i <= Len(a) THEN (a[i] * 2 ^ k) % Base ELSE 0)
                          + (IF i > 1 THEN a[i - 1] \div 2 ^ (15 - k) ELSE 0)]),
                 s \div 15)
shiftRight(a, s) ==
  LET k == s % 15
      b == SubSeq(a, s \div 15 + 1, Len(a))
  IN strip([i \in 1..Len(b) |->
              b[i] \div 2 ^ k
              + (IF i < Len(b) THEN (b[i + 1] % 2 ^ k) * 2 ^ (15 - k) ELSE 0)])

\* bit k of n, the lowest being bit 0, and whether a bit below it is set
bitAt(n, k) == (n[k \div 15 + 1] \div 2 ^ (k % 15)) % 2
anyBelow(n, k) ==
  \/ \E i \in 1..(k \div 15) : n[i] # 0
  \/ n[k \div 15 + 1] % 2 ^ (k % 15) # 0

\* Round to nearest, ties to even, to the 53 significant bits of a double: n
\* is the exact value cut off below its last digit, inexact tells that
\* something was cut off, s is the number of bits to drop.  The value goes up
\* when the dropped bits are more than half of the last kept bit, or half of
\* it with the kept bits odd.
roundTo(n, inexact, s) ==
  IF s <= 0 THEN n
  ELSE LET kept == shiftRight(n, s)
           up == /\ bitAt(n, s - 1) = 1
                 /\ (anyBelow(n, s - 1) \/ inexact \/ kept[1] % 2 = 1)
       IN shiftLeft(IF up THEN addFrom(kept, <<1>>, 1, 0) ELSE kept, s)
round(n, inexact) ==
  IF n = <<>> THEN <<>>
  ELSE roundTo(n, inexact, 15 * (Len(n) - 1) + bits(n[Len(n)]) - 53)

\* the double of an integer, and a + b, a - b (for a >= b), a * b and a / d
\* (for an integer d) of doubles, each rounded once
fromInt(k) == shiftDigits(natOf(k), 5)
plus(a, b) ==
  IF a = <<>> THEN b
  ELSE IF b = <<>> THEN a ELSE round(addFrom(a, b, 1, 0), FALSE)
minus(a, b) ==
  IF b = <<>> THEN a
  ELSE IF a = b THEN <<>> ELSE round(strip(subFrom(a, b, 1, 0)), FALSE)
times(a, b) ==
  IF a = <<>> \/ b = <<>> THEN <<>>
  ELSE LET product == round(strip(mulFrom(a, b, 1)), FALSE)
       IN SubSeq(product, 6, Len(product))
over(a, d) ==
  IF a = <<>> THEN <<>> ELSE
  LET quotient == divFrom(shiftDigits(a, 3), d, Len(a) + 3, 0)
      rounded == round(strip(quotient.q), quotient.r # 0)
  IN SubSeq(rounded, 4, Len(rounded))
\* the double nearest to n / d: a literal such as 0.3 is ratio(3, 10)
ratio(n, d) == over(fromInt(n), d)

(***************************************************************************)
(* CONFIDENCE_CONFIG                                                       *)
(***************************************************************************)
initialHumanCorrectionConfidence == 600000
autoApplyThreshold == 850000
suggestionThreshold == 700000
minimumThreshold == 500000
maxConfidence == 950000
reinforcementFactor == 50000
rejectionPenaltyFactor == 700000
maxConsecutiveRejectionsBeforeDeactivation == 3
\* the literal 0.5 of updateMemory's 'contradict' branch
contradictionFactor == 500000

(***************************************************************************)
(* confidence.ts                                                           *)
(***************************************************************************)
\* applyReinforcement without Math.min(..., maxConfidence)
applyReinforcementNoCap(confidence) ==
  confidence + MulFix(Scale - confidence, reinforcementFactor)

\* applyReinforcement that moves toward maxConfidence instead of 1
applyReinforcementTowardCap(confidence) ==
  Min(confidence + MulFix(maxConfidence - confidence, reinforcementFactor), maxConfidence)

\* applyReinforcement with half the reinforcement factor
applyReinforcementHalfStep(confidence) ==
  Min(confidence + MulFix(Scale - confidence, reinforcementFactor \div 2), maxConfidence)

\* applyReinforcement with (confidence - 1) in place of (1 - confidence)
applyReinforcementInverted(confidence) ==
  Min(confidence + MulFix(confidence - Scale, reinforcementFactor), maxConfidence)

applyReinforcement(confidence) ==
  Min(confidence + MulFix(Scale - confidence, reinforcementFactor), maxConfidence)

\* applyPenalty that multiplies by 1 - rejectionPenaltyFactor
applyPenaltyComplement(confidence) == MulFix(confidence, Scale - rejectionPenaltyFactor)

applyPenalty(confidence) ==
  Max(MulFix(confidence, rejectionPenaltyFactor), 0)

\* the contradiction handled with the rejection penalty
applyContradictionAsPenalty(confidence) == applyPenalty(confidence)

applyContradiction(confidence) == MulFix(confidence, contradictionFactor)

\* mapConfidenceToAction with > in place of >=
mapConfidenceToActionStrict(confidence) ==
  IF confidence > autoApplyThreshold THEN "auto_applied"
  ELSE IF confidence > suggestionThreshold THEN "suggested"
  ELSE "flagged"

mapConfidenceToAction(confidence) ==
  IF confidence >= autoApplyThreshold THEN "auto_applied"
  ELSE IF confidence >= suggestionThreshold THEN "suggested"
  ELSE "flagged"

\* String.prototype.toLowerCase, on the letters A to Z
LowerChar(c) ==
  CASE c = "A" -> "a" [] c = "B" -> "b" [] c = "C" -> "c" [] c = "D" -> "d"
    [] c = "E" -> "e" [] c = "F" -> "f" [] c = "G" -> "g" [] c = "H" -> "h"
    [] c = "I" -> "i" [] c = "J" -> "j" [] c = "K" -> "k" [] c = "L" -> "l"
    [] c = "M" -> "m" [] c = "N" -> "n" [] c = "O" -> "o" [] c = "P" -> "p"
    [] c = "Q" -> "q" [] c = "R" -> "r" [] c = "S" -> "s" [] c = "T" -> "t"
    [] c = "U" -> "u" [] c = "V" -> "v" [] c = "W" -> "w" [] c = "X" -> "x"
    [] c = "Y" -> "y" [] c = "Z" -> "z"
    [] OTHER -> c

toLowerCase(s) == [i \in 1..Len(s) |-> LowerChar(s[i])]

\* \s: blanks, tabs, line breaks, carriage returns and form feeds
WhiteSpace == {" ", "\t", "\n", "\r", "\f"}

RECURSIVE trimStart(_)
trimStart(s) ==
  IF s # <<>> /\ Head(s) \in WhiteSpace THEN trimStart(Tail(s)) ELSE s

RECURSIVE trimEnd(_)
trimEnd(s) ==
  IF s # <<>> /\ s[Len(s)] \in WhiteSpace
  THEN trimEnd(SubSeq(s, 1, Len(s) - 1)) ELSE s

trim(s) == trimEnd(trimStart(s))

\* s.replace(/\s+/g, ' ')
RECURSIVE collapseWhitespace(_)
collapseWhitespace(s) ==
  IF s = <<>> THEN <<>>
  ELSE IF Head(s) \in WhiteSpace
       THEN <<" ">> \o collapseWhitespace(trimStart(Tail(s)))
       ELSE <<Head(s)>> \o collapseWhitespace(Tail(s))

normalizeVendorName(vendorName) == collapseWhitespace(trim(toLowerCase(vendorName)))

(***************************************************************************)
(* JavaScript values: null, undefined, strings (token sequences) and the   *)
(* line-item arrays of an invoice.                                         *)
(***************************************************************************)
Null == [t |-> "null"]
Undefined == [t |-> "undefined"]
Str(s) == [t |-> "str", s |-> s]
Items(l) == [t |-> "items", items |-> l]

\* v == null
IsNullish(v) == v.t \in {"null", "undefined"}
\* the truthiness test of `if (v)`
Truthy(v) ==
  CASE v.t \in {"null", "undefined"} -> FALSE
    [] v.t = "str" -> v.s # <<>>
    [] OTHER -> TRUE
RECURSIVE joinObjects(_)
\* String(array) of n objects: Array.prototype.join, "[object Object]" for each
\* element and "," between two of them, the empty string for no element
joinObjects(n) ==
  IF n = 0 THEN <<>>
  ELSE IF n = 1 THEN <<"[object Object]">>
       ELSE joinObjects(n - 1) \o <<",", "[object Object]">>

\* String(v)
StringOf(v) ==
  CASE v.t = "null" -> <<"null">>
    [] v.t = "undefined" -> <<"undefined">>
    [] v.t = "str" -> v.s
    [] v.t = "items" -> joinObjects(Len(v.items))
    [] OTHER -> <<"[object Object]">>

(***************************************************************************)
(* Dates.  A Date is a number of ticks; toISOString().split('T')[0] and    *)
(* SQLite's date() both keep the UTC calendar day.                         *)
(***************************************************************************)
TicksPerDay == 2
dateOf(t) == t \div TicksPerDay
\* 7 * 864e5 ms
week == 7 * TicksPerDay

(***************************************************************************)
(* Raw text.  The text of an invoice is a sequence of "label: value"       *)
(* lines plus the tokens the pattern detectors look for.                   *)
(***************************************************************************)
NoText == [present |-> FALSE, lines |-> <<>>, currency |-> "", skonto |-> FALSE,
           freight |-> FALSE, taxIncl |-> FALSE]
Text(lines, currency, skonto, freight, taxIncl) ==
  [present |-> TRUE, lines |-> lines, currency |-> currency, skonto |-> skonto,
   freight |-> freight, taxIncl |-> taxIncl]
Line(label, value) == [label |-> label, value |-> value]

\* The characters of a string of the model: its labels and its field names are
\* TLA+ strings, the text the regular expressions read is made of characters.
Spell(s) ==
  CASE s = "Leistungsdatum" ->
         <<"L", "e", "i", "s", "t", "u", "n", "g", "s", "d", "a", "t", "u", "m">>
    [] s = "LEISTUNGSDATUM" ->
         <<"L", "E", "I", "S", "T", "U", "N", "G", "S", "D", "A", "T", "U", "M">>
    [] s = "Rechnungsdatum" ->
         <<"R", "e", "c", "h", "n", "u", "n", "g", "s", "d", "a", "t", "u", "m">>
    [] s = "Lieferdatum" ->
         <<"L", "i", "e", "f", "e", "r", "d", "a", "t", "u", "m">>
    [] s = "Bestellnummer" ->
         <<"B", "e", "s", "t", "e", "l", "l", "n", "u", "m", "m", "e", "r">>
    [] s = "Bestellnr" ->
         <<"B", "e", "s", "t", "e", "l", "l", "n", "r">>
    [] s = "PO" ->
         <<"P", "O">>
    [] s = "serviceDate" ->
         <<"s", "e", "r", "v", "i", "c", "e", "D", "a", "t", "e">>
    [] s = "invoiceDate" ->
         <<"i", "n", "v", "o", "i", "c", "e", "D", "a", "t", "e">>
    [] s = "deliveryDate" ->
         <<"d", "e", "l", "i", "v", "e", "r", "y", "D", "a", "t", "e">>
    [] s = "poNumber" ->
         <<"p", "o", "N", "u", "m", "b", "e", "r">>
    [] s = "currency" ->
         <<"c", "u", "r", "r", "e", "n", "c", "y">>
    [] s = "lineItems" ->
         <<"l", "i", "n", "e", "I", "t", "e", "m", "s">>
    [] s = "" -> <<>>
    [] OTHER -> <<s>>

Digit == {"0", "1", "2", "3", "4", "5", "6", "7", "8", "9"}
Letter == {"a", "b", "c", "d", "e", "f", "g", "h", "i", "j", "k", "l", "m",
           "n", "o", "p", "q", "r", "s", "t", "u", "v", "w", "x", "y", "z"}

\* One element of a regular expression with the i flag, inside the capture
\* group or not: a class of characters (lower-cased), negated or not, repeated
\* lo to hi times (hi < 0: any number of times, greedily), or the characters
\* of a word one after another.
Elem(set, negated, lo, hi, group) ==
  [chars |-> <<>>, set |-> set, negated |-> negated, lo |-> lo, hi |-> hi, group |-> group]

\* the characters of s, each matched once, whatever its case
lit(s, group) ==
  <<[chars |-> toLowerCase(s), set |-> {}, negated |-> FALSE, lo |-> Len(s), hi |-> Len(s),
     group |-> group]>>

\* (\d{2}\.\d{2}\.\d{4}), (\d{4}-\d{2}-\d{2}) and (PO-[A-Z]-\d+)
dmyGroup ==
  <<Elem(Digit, FALSE, 2, 2, TRUE), Elem({"."}, FALSE, 1, 1, TRUE),
    Elem(Digit, FALSE, 2, 2, TRUE), Elem({"."}, FALSE, 1, 1, TRUE),
    Elem(Digit, FALSE, 4, 4, TRUE)>>
isoGroup ==
  <<Elem(Digit, FALSE, 4, 4, TRUE), Elem({"-"}, FALSE, 1, 1, TRUE),
    Elem(Digit, FALSE, 2, 2, TRUE), Elem({"-"}, FALSE, 1, 1, TRUE),
    Elem(Digit, FALSE, 2, 2, TRUE)>>
poGroup ==
  lit(<<"P", "O", "-">>, TRUE)
  \o <<Elem(Letter, FALSE, 1, 1, TRUE), Elem({"-"}, FALSE, 1, 1, TRUE),
       Elem(Digit, FALSE, 1, -1, TRUE)>>

FIELD_PATTERNS(originalField) ==
  CASE originalField = "Leistungsdatum" ->
         <<lit(Spell("Leistungsdatum"), FALSE)
             \o <<Elem({":"} \cup WhiteSpace, FALSE, 0, -1, FALSE)>> \o dmyGroup,
           lit(Spell("Leistungsdatum"), FALSE)
             \o <<Elem({":"} \cup WhiteSpace, FALSE, 0, -1, FALSE)>> \o isoGroup>>
    [] originalField = "Rechnungsdatum" ->
         <<lit(Spell("Rechnungsdatum"), FALSE)
             \o <<Elem({":"} \cup WhiteSpace, FALSE, 0, -1, FALSE)>> \o dmyGroup>>
    [] originalField = "Bestellnummer" ->
         <<lit(Spell("Bestellnr"), FALSE)
             \o <<Elem({".", ":"}, FALSE, 0, 1, FALSE), Elem(WhiteSpace, FALSE, 0, -1, FALSE)>>
             \o poGroup,
           lit(Spell("PO"), FALSE)
             \o <<Elem({":", "#"} \cup WhiteSpace, FALSE, 0, -1, FALSE)>> \o poGroup>>
    [] OTHER -> <<>>

\* new RegExp(escaped originalField + '[:\\s]*([^\\n]+)', 'i')
genericPattern(originalField) ==
  lit(Spell(originalField), FALSE)
  \o <<Elem({":"} \cup WhiteSpace, FALSE, 0, -1, FALSE), Elem({"\n"}, TRUE, 1, -1, TRUE)>>

\* the raw text of the lines: "label: value" for each line, a line break
\* between two lines
RECURSIVE textOf(_)
textOf(lines) ==
  IF lines = <<>> THEN <<>>
  ELSE Spell(Head(lines).label) \o <<":", " ">> \o Head(lines).value
       \o (IF Len(lines) > 1 THEN <<"\n">> \o textOf(Tail(lines)) ELSE <<>>)

\* the word of element e stands at position j of the text
wordAt(text, j, e) ==
  /\ j + Len(e.chars) - 1 <= Len(text)
  /\ \A i \in 1..Len(e.chars) : LowerChar(text[j + i - 1]) = e.chars[i]

\* the number of characters from position j on that element e takes at most:
\* those of its word, or the characters of its class up to the first one that
\* is not of it
runLength(text, j, e) ==
  IF e.chars # <<>> THEN (IF wordAt(text, j, e) THEN Len(e.chars) ELSE 0)
  ELSE LET most == IF e.hi < 0 THEN Len(text) - j + 1 ELSE Min(e.hi, Len(text) - j + 1)
           stops == {n \in 0..(most - 1) : (LowerChar(text[j + n]) \in e.set) = e.negated}
       IN IF stops = {} THEN most ELSE CHOOSE n \in stops : \A m \in stops : n <= m

\* The match of the elements k, k + 1, ... of a pattern at position j of the
\* text, as the backtracking matcher finds it: every element takes as many
\* characters as it can and gives them back one at a time while the rest of
\* the pattern fails.  from is where the capture group begins, to the position
\* behind the match.
RECURSIVE matchHere(_, _, _, _)
RECURSIVE matchTaking(_, _, _, _, _)
matchHere(text, j, pattern, k) ==
  IF k > Len(pattern) THEN [found |-> TRUE, from |-> j, to |-> j]
  ELSE matchTaking(text, j, pattern, k, runLength(text, j, pattern[k]))

matchTaking(text, j, pattern, k, n) ==
  IF n < pattern[k].lo THEN [found |-> FALSE, from |-> 0, to |-> 0]
  ELSE LET rest == matchHere(text, j + n, pattern, k + 1)
       IN IF rest.found
          THEN IF pattern[k].group THEN [rest EXCEPT !.from = j] ELSE rest
          ELSE matchTaking(text, j, pattern, k, n - 1)

\* text.match(pattern) from position i on: the leftmost match
matchFrom(text, i, pattern) ==
  LET starts == {j \in i..(Len(text) + 1) : matchHere(text, j, pattern, 1).found}
  IN IF starts = {} THEN [found |-> FALSE, from |-> 0, to |-> 0]
     ELSE matchHere(text, CHOOSE j \in starts : \A m \in starts : j <= m, pattern, 1)

\* text.match(pattern)?.[1], <<>> when the pattern does not match
matchPattern(text, pattern) ==
  LET match == matchFrom(text, 1, pattern)
  IN IF match.found THEN SubSeq(text, match.from, match.to - 1) ELSE <<>>

\* fieldName.toLowerCase().includes('date'), on the field names of the model
FieldNameHasDate(fieldName) == fieldName \in {"serviceDate", "invoiceDate", "deliveryDate"}

\* value.match(/^(\d{2})\.(\d{2})\.(\d{4})$/)
IsDMY(value) ==
  /\ matchHere(value, 1, dmyGroup, 1).found
  /\ matchHere(value, 1, dmyGroup, 1).to = Len(value) + 1

normalizeValue(value, fieldName) ==
  IF FieldNameHasDate(fieldName) /\ IsDMY(value)
  THEN SubSeq(value, 7, 10) \o <<"-">> \o SubSeq(value, 4, 5) \o <<"-">> \o SubSeq(value, 1, 2)
  ELSE trim(value)

RECURSIVE firstPatternMatch(_, _)
firstPatternMatch(text, patterns) ==
  IF patterns = <<>> THEN <<>>
  ELSE LET match == matchPattern(text, Head(patterns))
       IN IF match # <<>> THEN match ELSE firstPatternMatch(text, Tail(patterns))

\* ApplyService.extractValue: a string, or Null
extractValue(rawText, originalField, normalizedField) ==
  IF ~rawText.present THEN Null
  ELSE LET text == textOf(rawText.lines)
           specific == firstPatternMatch(text, FIELD_PATTERNS(originalField))
           generic == matchPattern(text, genericPattern(originalField))
       IN IF specific # <<>> THEN Str(normalizeValue(specific, normalizedField))
          ELSE IF generic # <<>> THEN Str(normalizeValue(trim(generic), normalizedField))
          ELSE Null

(***************************************************************************)
(* The inputs: invoices, purchase orders and feedback corrections.         *)
(***************************************************************************)
Field(name, value, extractionConfidence, originalLabel) ==
  [name |-> name, value |-> value, extractionConfidence |-> extractionConfidence,
   originalLabel |-> originalLabel]
\* an InvoiceField without originalLabel
NoLabel == ""

VendorAbC == <<"A", "b", " ", "C">>
VendorAbCSpaced == <<" ", "a", "b", " ", " ", "c">>
VendorXY == <<"X", "y">>

Invoice(id) ==
  CASE id = "INV-1" ->
         [id |-> id, vendorId |-> VendorAbC, vendorName |-> VendorAbC,
          invoiceNumber |-> "N1", invoiceDate |-> 20,
          fields |-> <<Field("serviceDate", Null, 300000, "Leistungsdatum"),
                       Field("poNumber", Null, 300000, NoLabel)>>,
          rawText |-> Text(<<Line("Leistungsdatum", <<"0", "1", ".", "0", "1", ".", "2", "0", "2", "4">>)>>,
                           "", FALSE, FALSE, FALSE)]
    [] id = "INV-2" ->
         [id |-> id, vendorId |-> VendorAbCSpaced, vendorName |-> VendorAbCSpaced,
          invoiceNumber |-> "N1", invoiceDate |-> 33,
          fields |-> <<Field("serviceDate", Null, 300000, "Leistungsdatum"),
                       Field("poNumber", Str(<<"P", "O", "-", "1">>), 780000, NoLabel)>>,
          rawText |-> Text(<<Line("LEISTUNGSDATUM", <<"1", "5", ".", "0", "1", ".", "2", "0", "2", "4">>)>>,
                           "", FALSE, FALSE, FALSE)]
    [] id = "INV-3" ->
         [id |-> id, vendorId |-> VendorAbC, vendorName |-> VendorAbC,
          invoiceNumber |-> "N1", invoiceDate |-> 38,
          fields |-> <<Field("serviceDate", Str(<<"2", "0", "2", "4", "-", "0", "2", "-", "0", "1">>), 780000,
                             NoLabel),
                       Field("poNumber", Null, 300000, NoLabel)>>,
          rawText |-> NoText]
    [] id = "INV-4" ->
         [id |-> id, vendorId |-> VendorXY, vendorName |-> VendorXY,
          invoiceNumber |-> "N1", invoiceDate |-> 20,
          fields |-> <<Field("currency", Null, 400000, NoLabel),
                       Field("lineItems", Items(<<[sku |-> "S1", qty |-> 2]>>), 780000, NoLabel)>>,
          rawText |-> Text(<<>>, "EUR", TRUE, TRUE, TRUE)]
    [] id = "INV-5" ->
         [id |-> id, vendorId |-> VendorAbC, vendorName |-> VendorAbC,
          invoiceNumber |-> "N5", invoiceDate |-> 60,
          fields |-> <<Field("serviceDate", Null, 780000, "Lieferdatum")>>,
          rawText |-> NoText]
    [] id = "INV-7" ->
         [id |-> id, vendorId |-> VendorAbC, vendorName |-> VendorAbC,
          invoiceNumber |-> "N7", invoiceDate |-> 150,
          fields |-> <<Field("serviceDate", Str(<<"2", "0", "2", "4", "-", "0", "2", "-", "0", "1">>), 780000,
                             NoLabel),
                       Field("poNumber", Str(<<"P", "O", "-", "1">>), 780000, "Bestellnummer")>>,
          rawText |-> Text(<<Line("Leistungsdatum", <<"1", "5", ".", "0", "1", ".", "2", "0", "2", "4">>)>>,
                           "", FALSE, FALSE, FALSE)]
    [] id = "INV-9" ->
         [id |-> id, vendorId |-> VendorAbC, vendorName |-> VendorAbC,
          invoiceNumber |-> "N1", invoiceDate |-> 30,
          fields |-> <<>>,
          rawText |-> NoText]
    [] id = "INV-10" ->
         [id |-> id, vendorId |-> VendorXY, vendorName |-> VendorXY,
          invoiceNumber |-> "N10", invoiceDate |-> 10,
          fields |-> <<Field("lineItems",
                             Items(<<[sku |-> "S1", qty |-> 2], [sku |-> "S2", qty |-> 1],
                                     [sku |-> "S3", qty |-> 1]>>), 780000, NoLabel)>>,
          rawText |-> NoText]
    [] id = "INV-11" ->
         [id |-> id, vendorId |-> VendorAbC, vendorName |-> VendorAbC,
          invoiceNumber |-> "N11", invoiceDate |-> 300,
          fields |-> <<Field("deliveryDate", Null, 780000, "Leistungsdatum")>>,
          rawText |-> NoText]
    [] id = "INV-12" ->
         [id |-> id, vendorId |-> VendorXY, vendorName |-> VendorXY,
          invoiceNumber |-> "N12", invoiceDate |-> 10,
          fields |-> <<Field("lineItems", Str(<<"S", "1">>), 780000, NoLabel)>>,
          rawText |-> NoText]
    [] id = "INV-8" ->
         [id |-> id, vendorId |-> VendorXY, vendorName |-> VendorXY,
          invoiceNumber |-> "N8", invoiceDate |-> 200,
          fields |-> <<>>,
          rawText |-> NoText]
    [] id = "INV-6" ->
         [id |-> id, vendorId |-> VendorAbC, vendorName |-> VendorAbC,
          invoiceNumber |-> "N6", invoiceDate |-> 90,
          fields |-> <<Field("serviceDate", Null, 780000, NoLabel)>>,
          rawText |-> Text(<<Line("Lieferdatum", <<"2", "0", ".", "0", "1", ".", "2", "0", "2", "4">>),
                             Line("Leistungsdatum", <<"1", "5", ".", "0", "1", ".", "2", "0", "2", "4">>)>>,
                           "", FALSE, FALSE, FALSE)]

InvoiceIds == {"INV-1", "INV-2", "INV-3", "INV-4"}

\* Object.keys(invoice.fields)
fieldNames(invoice) == [i \in 1..Len(invoice.fields) |-> invoice.fields[i].name]
Range(s) == {s[i] : i \in 1..Len(s)}
HasField(invoice, name) == \E i \in 1..Len(invoice.fields) : invoice.fields[i].name = name
\* invoice.fields[name], for a name the invoice has
FieldOf(invoice, name) ==
  invoice.fields[CHOOSE i \in 1..Len(invoice.fields) : invoice.fields[i].name = name]

PurchaseOrder(poNumber, vendor, date, lineItems) ==
  [poNumber |-> poNumber, vendor |-> vendor, date |-> date, lineItems |-> lineItems]
PurchaseOrders ==
  <<PurchaseOrder(<<"P", "O", "-", "7">>, <<"x", "Y", " ">>, 10, <<[sku |-> "S1", qty |-> 2]>>),
    PurchaseOrder(<<"P", "O", "-", "8">>, <<"a", "b", " ", "c">>, 30, <<>>),
    PurchaseOrder(<<"P", "O", "-", "9">>, <<"A", "b", " ", "C">>, 20, <<>>)>>

Correction(fieldName, originalValue, correctedValue) ==
  [fieldName |-> fieldName, originalValue |-> originalValue, correctedValue |-> correctedValue]
CorrServiceDate == Correction("serviceDate", Null, Str(<<"2", "0", "2", "4", "-", "0", "1", "-", "0", "1">>))
CorrDeliveryDate == Correction("deliveryDate", Null, Str(<<"2", "0", "2", "4", "-", "0", "1", "-", "2", "0">>))
CorrDeliveryDateLater == Correction("deliveryDate", Null, Str(<<"2", "0", "2", "4", "-", "0", "1", "-", "2", "1">>))
CorrPO1 == Correction("poNumber", Null, Str(<<"P", "O", "-", "1">>))
CorrPO2 == Correction("poNumber", Null, Str(<<"P", "O", "-", "2">>))

\* HumanFeedback: the action and the optional corrections list
Feedback(action, hasCorrections, corrections) ==
  [action |-> action, hasCorrections |-> hasCorrections, corrections |-> corrections]
Feedbacks ==
  { Feedback("approve", FALSE, <<>>), Feedback("reject", FALSE, <<>>),
    Feedback("correct", FALSE, <<>>),
    Feedback("correct", TRUE, <<CorrServiceDate>>),
    Feedback("correct", TRUE, <<CorrPO1>>),
    Feedback("correct", TRUE, <<CorrPO2>>),
    Feedback("correct", TRUE, <<CorrServiceDate, CorrPO1>>) }


(***************************************************************************)
(* State.                                                                  *)
(***************************************************************************)
VARIABLES
  vendorMemories,       \* table vendor_memories, in insertion order
  correctionMemories,   \* table correction_memories, in insertion order
  resolutionMemories,   \* table resolution_memories, in insertion order
  processedInvoices,    \* table processed_invoices, keyed by invoice id
  auditTrail,           \* table audit_trail: the number of rows of each step
  contributingMemories, \* LearnService.contributingMemories, keyed by invoice id
  orders,               \* POMatchingService.orders
  calls,                \* processInvoice and learnFromFeedback calls made so far
  last                  \* what the last call was given and what it returned

vars == <<vendorMemories, correctionMemories, resolutionMemories, processedInvoices,
          auditTrail, contributingMemories, orders, calls, last>>

memories == <<vendorMemories, correctionMemories, resolutionMemories>>

\* correction_memories.vendor_id IS NULL
NullVendor == <<"NULL">>

(***************************************************************************)
(* Sequences.                                                              *)
(***************************************************************************)
RECURSIVE SelectSeqBy(_, _)
\* the elements of s whose index is in keep, in order
SelectSeqBy(s, keep) ==
  IF s = <<>> THEN <<>>
  ELSE LET n == Len(s)
           front == SelectSeqBy(SubSeq(s, 1, n - 1), keep)
       IN IF n \in keep THEN Append(front, s[n]) ELSE front

\* x put into the confidence-descending sequence s behind every element that is
\* not smaller: a stable descending sort
RECURSIVE insertByConfidence(_, _)
insertByConfidence(s, x) ==
  IF s = <<>> THEN <<x>>
  ELSE IF Head(s).confidence >= x.confidence
       THEN <<Head(s)>> \o insertByConfidence(Tail(s), x)
       ELSE <<x>> \o s

RECURSIVE sortByConfidence(_)
sortByConfidence(s) ==
  IF s = <<>> THEN <<>>
  ELSE insertByConfidence(sortByConfidence(SubSeq(s, 1, Len(s) - 1)), s[Len(s)])

(***************************************************************************)
(* MemoryRepository                                                        *)
(***************************************************************************)
\* SELECT * FROM vendor_memories WHERE vendor_id = ? AND is_active = 1
\* ORDER BY confidence DESC
findVendorMemoriesIn(table, vendorId) ==
  sortByConfidence(SelectSeqBy(table,
    {i \in 1..Len(table) : table[i].vendorId = vendorId /\ table[i].isActive}))

\* findVendorMemories without is_active = 1
findVendorMemoriesAnyState(vendorId) ==
  sortByConfidence(SelectSeqBy(vendorMemories,
    {i \in 1..Len(vendorMemories) : vendorMemories[i].vendorId = vendorId}))

findVendorMemories(vendorId) == findVendorMemoriesIn(vendorMemories, vendorId)

findCorrectionMemories(vendorId, fieldName) ==
  sortByConfidence(SelectSeqBy(correctionMemories,
    {i \in 1..Len(correctionMemories) :
       /\ IF vendorId = NullVendor
          THEN correctionMemories[i].vendorId = NullVendor
          ELSE correctionMemories[i].vendorId \in {vendorId, NullVendor}
       /\ correctionMemories[i].fieldName = fieldName
       /\ correctionMemories[i].isActive}))

\* the approval rate of a is above that of b, or equal with more outcomes
resolutionBefore(a, b) ==
  LET ta == a.approvalCount + a.rejectionCount
      tb == b.approvalCount + b.rejectionCount
  IN IF a.approvalCount * tb # b.approvalCount * ta
     THEN a.approvalCount * tb > b.approvalCount * ta
     ELSE ta > tb

\* x put into the sequence s, which is descending in approvals + rejections,
\* behind every element that has not fewer: a stable descending sort
RECURSIVE insertByOutcomes(_, _)
insertByOutcomes(s, x) ==
  IF s = <<>> THEN <<x>>
  ELSE IF Head(s).approvalCount + Head(s).rejectionCount
            >= x.approvalCount + x.rejectionCount
       THEN <<Head(s)>> \o insertByOutcomes(Tail(s), x)
       ELSE <<x>> \o s

RECURSIVE sortByOutcomes(_)
sortByOutcomes(s) ==
  IF s = <<>> THEN <<>>
  ELSE insertByOutcomes(sortByOutcomes(SubSeq(s, 1, Len(s) - 1)), s[Len(s)])

\* SELECT * FROM resolution_memories WHERE discrepancy_type = ? AND is_active = 1
\* ORDER BY (approval_count + rejection_count) DESC
findResolutionMemories(discrepancyType) ==
  sortByOutcomes(SelectSeqBy(resolutionMemories,
    {i \in 1..Len(resolutionMemories) :
       resolutionMemories[i].discrepancyType = discrepancyType
       /\ resolutionMemories[i].isActive}))

\* the ids of processed_invoices with this vendor and number whose date() lies
\* between the date of date - week and that of date + week
findPotentialDuplicates(vendorId, invoiceNumber, date) ==
  {id \in DOMAIN processedInvoices :
     /\ processedInvoices[id].vendorId = vendorId
     /\ processedInvoices[id].invoiceNumber = invoiceNumber
     /\ dateOf(processedInvoices[id].invoiceDate) >= dateOf(date - week)
     /\ dateOf(processedInvoices[id].invoiceDate) <= dateOf(date + week)}

\* INSERT OR REPLACE INTO processed_invoices
saveProcessedInvoice(table, id, vendorId, invoiceNumber, invoiceDate) ==
  [x \in DOMAIN table \cup {id} |->
     IF x = id
     THEN [vendorId |-> vendorId, invoiceNumber |-> invoiceNumber, invoiceDate |-> invoiceDate]
     ELSE table[x]]

\* INSERT INTO audit_trail, n rows of one step
saveAuditEntry(table, step) == [table EXCEPT ![step] = @ + 1]

(***************************************************************************)
(* RecallService                                                           *)
(***************************************************************************)
\* filterByConfidence without the sort
filterByConfidenceUnsorted(mems) ==
  SelectSeqBy(mems, {i \in 1..Len(mems) : mems[i].confidence >= minimumThreshold})

filterByConfidence(mems) ==
  sortByConfidence(SelectSeqBy(mems,
    {i \in 1..Len(mems) : mems[i].confidence >= minimumThreshold}))

\* the loop of recallCorrectionMemories without the seen set
dedupByIdKeepingAll(s, seen) == s

RECURSIVE dedupById(_, _)
\* the elements of s whose id is not in seen, each id once
dedupById(s, seen) ==
  IF s = <<>> THEN <<>>
  ELSE IF Head(s).id \in seen THEN dedupById(Tail(s), seen)
       ELSE <<Head(s)>> \o dedupById(Tail(s), seen \cup {Head(s).id})

RECURSIVE correctionCandidates(_, _)
correctionCandidates(vendorId, names) ==
  IF names = <<>> THEN <<>>
  ELSE findCorrectionMemories(vendorId, Head(names))
       \o findCorrectionMemories(NullVendor, Head(names))
       \o correctionCandidates(vendorId, Tail(names))

recallCorrectionMemories(vendorId, names) ==
  filterByConfidence(dedupById(correctionCandidates(vendorId, names), {}))

\* the keyword map of extractDiscrepancyTypes, on the field names of the model
discrepancyTypesOf(fieldName) ==
  CASE fieldName \in {"serviceDate", "invoiceDate", "deliveryDate"} -> <<"date_mismatch">>
    [] fieldName = "poNumber" -> <<"po_mismatch">>
    [] fieldName = "currency" -> <<"currency_mismatch">>
    [] OTHER -> <<>>

RECURSIVE extractDiscrepancyTypes(_, _)
extractDiscrepancyTypes(names, types) ==
  IF names = <<>> THEN types
  ELSE extractDiscrepancyTypes(Tail(names),
         types \o SelectSeq(discrepancyTypesOf(Head(names)), LAMBDA t : t \notin Range(types)))

RECURSIVE resolutionCandidates(_)
resolutionCandidates(types) ==
  IF types = <<>> THEN <<>>
  ELSE findResolutionMemories(Head(types)) \o resolutionCandidates(Tail(types))

RECURSIVE insertResolution(_, _)
insertResolution(s, x) ==
  IF s = <<>> THEN <<x>>
  ELSE IF resolutionBefore(x, Head(s)) THEN <<x>> \o s
       ELSE <<Head(s)>> \o insertResolution(Tail(s), x)

RECURSIVE sortResolutions(_)
sortResolutions(s) ==
  IF s = <<>> THEN <<>>
  ELSE insertResolution(sortResolutions(SubSeq(s, 1, Len(s) - 1)), s[Len(s)])

recallResolutionMemories(invoice) ==
  LET all == dedupById(resolutionCandidates(extractDiscrepancyTypes(fieldNames(invoice), <<>>)), {})
  IN sortResolutions(SelectSeq(all, LAMBDA m : m.approvalCount + m.rejectionCount > 0))

\* the parts of the recall audit text: the counts, and whether it names each kind
buildAuditDetails(mems) ==
  LET total == Len(mems.vendorMemories) + Len(mems.correctionMemories)
               + Len(mems.resolutionMemories)
  IN [total |-> total,
      noneFound |-> total = 0,
      vendorPart |-> total # 0 /\ Len(mems.vendorMemories) > 0,
      correctionPart |-> total # 0 /\ Len(mems.correctionMemories) > 0,
      resolutionPart |-> total # 0 /\ Len(mems.resolutionMemories) > 0]

\* the RecallResult of the memories found
recallResult(mems) == [memories |-> mems, auditDetails |-> buildAuditDetails(mems)]

\* the three lookups of recallMemories under the normalized vendor key
recallByVendor(invoice, vendorId) ==
  recallResult([vendorMemories |-> filterByConfidence(findVendorMemories(vendorId)),
                correctionMemories |-> recallCorrectionMemories(vendorId, fieldNames(invoice)),
                resolutionMemories |-> recallResolutionMemories(invoice)])

recallMemories(invoice) == recallByVendor(invoice, normalizeVendorName(invoice.vendorId))


(***************************************************************************)
(* ApplyService                                                            *)
(***************************************************************************)
\* record[name] of a JavaScript object: Undefined for a missing key
Get(record, name) == IF name \in DOMAIN record THEN record[name] ELSE Undefined
Put(record, name, value) ==
  [x \in DOMAIN record \cup {name} |-> IF x = name THEN value ELSE record[x]]

\* Object.fromEntries(Object.entries(invoice.fields).map(([k, v]) => [k, v.value]))
initialNormalized(invoice) ==
  [name \in Range(fieldNames(invoice)) |-> FieldOf(invoice, name).value]

AppliedMemory(memoryId, memoryType, fieldName, action, confidence, extractedValue) ==
  [memoryId |-> memoryId, memoryType |-> memoryType, fieldName |-> fieldName,
   action |-> action, confidence |-> confidence, extractedValue |-> extractedValue]

ProposedCorrection(fieldName, currentValue, suggestedValue, memoryId, memoryType, confidence) ==
  [fieldName |-> fieldName, currentValue |-> currentValue, suggestedValue |-> suggestedValue,
   memoryId |-> memoryId, memoryType |-> memoryType, confidence |-> confidence]

\* the vendor loop proposing a correction only for the action suggested
applyExtractedSuggestedOnly(acc, vm, extracted) ==
  LET action == mapConfidenceToAction(vm.confidence)
      current == Get(acc.normalized, vm.normalizedFieldName)
  IN [normalized |->
        IF Truthy(extracted) /\ action = "auto_applied"
        THEN Put(acc.normalized, vm.normalizedFieldName, extracted)
        ELSE acc.normalized,
      corrections |->
        IF Truthy(extracted) /\ action = "suggested"
        THEN Append(acc.corrections,
               ProposedCorrection(vm.normalizedFieldName, current, extracted, vm.id, "vendor",
                                  vm.confidence))
        ELSE acc.corrections,
      applied |->
        Append(acc.applied,
          AppliedMemory(vm.id, "vendor", vm.normalizedFieldName, action, vm.confidence,
                        IF extracted = Null THEN Undefined ELSE extracted))]

\* one pass of the vendor loop, once the value was looked for in the raw text
applyExtracted(acc, vm, extracted) ==
  LET action == mapConfidenceToAction(vm.confidence)
      current == Get(acc.normalized, vm.normalizedFieldName)
  IN [normalized |->
        IF Truthy(extracted) /\ action = "auto_applied"
        THEN Put(acc.normalized, vm.normalizedFieldName, extracted)
        ELSE acc.normalized,
      corrections |->
        IF Truthy(extracted) /\ action # "auto_applied"
        THEN Append(acc.corrections,
               ProposedCorrection(vm.normalizedFieldName, current, extracted, vm.id, "vendor",
                                  vm.confidence))
        ELSE acc.corrections,
      applied |->
        Append(acc.applied,
          AppliedMemory(vm.id, "vendor", vm.normalizedFieldName, action, vm.confidence,
                        IF extracted = Null THEN Undefined ELSE extracted))]

\* the vendor loop looking the value up whatever the field holds
applyVendorMemoryOverwriting(acc, vm, invoice) ==
  applyExtracted(acc, vm,
    extractValue(invoice.rawText, vm.originalFieldName, vm.normalizedFieldName))

\* one pass of the vendor loop
applyVendorMemory(acc, vm, invoice) ==
  applyExtracted(acc, vm,
    IF IsNullish(Get(acc.normalized, vm.normalizedFieldName))
    THEN extractValue(invoice.rawText, vm.originalFieldName, vm.normalizedFieldName)
    ELSE Null)

\* the correction loop writing its value only into an empty field
applyCorrectionMemoryKeeping(acc, cm) ==
  LET action == mapConfidenceToAction(cm.confidence)
  IN [normalized |->
        IF action = "auto_applied" /\ IsNullish(Get(acc.normalized, cm.fieldName))
        THEN Put(acc.normalized, cm.fieldName, Str(cm.correctedValue))
        ELSE acc.normalized,
      corrections |->
        IF action = "suggested"
        THEN Append(acc.corrections,
               ProposedCorrection(cm.fieldName, Get(acc.normalized, cm.fieldName),
                                  Str(cm.correctedValue), cm.id, "correction", cm.confidence))
        ELSE acc.corrections,
      applied |->
        Append(acc.applied,
          AppliedMemory(cm.id, "correction", cm.fieldName, action, cm.confidence,
                        Str(cm.correctedValue)))]

\* one pass of the correction loop
applyCorrectionMemory(acc, cm) ==
  LET action == mapConfidenceToAction(cm.confidence)
  IN [normalized |->
        IF action = "auto_applied"
        THEN Put(acc.normalized, cm.fieldName, Str(cm.correctedValue))
        ELSE acc.normalized,
      corrections |->
        IF action = "suggested"
        THEN Append(acc.corrections,
               ProposedCorrection(cm.fieldName, Get(acc.normalized, cm.fieldName),
                                  Str(cm.correctedValue), cm.id, "correction", cm.confidence))
        ELSE acc.corrections,
      applied |->
        Append(acc.applied,
          AppliedMemory(cm.id, "correction", cm.fieldName, action, cm.confidence,
                        Str(cm.correctedValue)))]

RECURSIVE applyVendorLoop(_, _, _)
applyVendorLoop(acc, vms, invoice) ==
  IF vms = <<>> THEN acc
  ELSE applyVendorLoop(applyVendorMemory(acc, Head(vms), invoice), Tail(vms), invoice)

RECURSIVE applyCorrectionLoop(_, _)
applyCorrectionLoop(acc, cms) ==
  IF cms = <<>> THEN acc
  ELSE applyCorrectionLoop(applyCorrectionMemory(acc, Head(cms)), Tail(cms))

DetectedPattern(type, fieldName, suggestedAction) ==
  [type |-> type, fieldName |-> fieldName, suggestedAction |-> suggestedAction]

\* detectPatterns: the patterns found, and the record after currency recovery
detectPatterns(invoice, normalized) ==
  LET text == invoice.rawText
      recover == ~Truthy(Get(normalized, "currency")) /\ text.present /\ text.currency # ""
  IN [normalized |->
        IF recover THEN Put(normalized, "currency", Str(<<text.currency>>)) ELSE normalized,
      patterns |->
        (IF recover
         THEN <<DetectedPattern("currency_recovery", "currency", "Recovered currency")>>
         ELSE <<>>)
        \o (IF text.present /\ text.skonto
            THEN <<DetectedPattern("skonto", "", "Skonto terms detected")>> ELSE <<>>)
        \o (IF text.present /\ text.freight
            THEN <<DetectedPattern("sku_mapping", "sku", "SKU mapping")>> ELSE <<>>)
        \o (IF text.present /\ text.taxIncl
            THEN <<DetectedPattern("tax_inclusive", "", "Tax inclusive indicator found")>>
            ELSE <<>>)]

\* the ApplyResult of the two loops and of detectPatterns
applyResult(afterCorrection, detected) ==
  [normalizedInvoice |-> detected.normalized,
   appliedMemories |-> afterCorrection.applied,
   proposedCorrections |-> afterCorrection.corrections,
   detectedPatterns |-> detected.patterns]

\* detectPatterns runs on the record the two loops leave
applyDetect(invoice, afterCorrection) ==
  applyResult(afterCorrection, detectPatterns(invoice, afterCorrection.normalized))

applyMemories(invoice, mems) ==
  applyDetect(invoice,
    applyCorrectionLoop(
      applyVendorLoop([normalized |-> initialNormalized(invoice), corrections |-> <<>>,
                       applied |-> <<>>],
                      mems.vendorMemories, invoice),
      mems.correctionMemories))

(***************************************************************************)
(* POMatchingService                                                       *)
(***************************************************************************)
\* invoice.fields['lineItems']?.value
lineItemsValue(invoice) ==
  IF HasField(invoice, "lineItems") THEN FieldOf(invoice, "lineItems").value ELSE Undefined

\* the line items the loop reads: those of an array; lineItems?.length is
\* falsy for null, undefined, an empty string and an object without length
lineItemsOf(invoice) ==
  IF lineItemsValue(invoice).t = "items" THEN lineItemsValue(invoice).items ELSE <<>>

\* lineItems.map(...) on a string that is not empty: its length is truthy and
\* it has no map, a TypeError
mapThrows(invoice) ==
  lineItemsValue(invoice).t = "str" /\ lineItemsValue(invoice).s # <<>>

\* po.lineItems.find(p => p.sku === sku)?.qty === qty
qtyMatches(po, item) ==
  \E i \in 1..Len(po.lineItems) :
    /\ po.lineItems[i].sku = item.sku
    /\ \A j \in 1..(i - 1) : po.lineItems[j].sku # item.sku
    /\ po.lineItems[i].qty = item.qty

\* the literals of findMatchingPO and of the PO matching step of processInvoice
vendorScore == ratio(3, 10)
dateWeight == ratio(2, 10)
skuWeight == ratio(3, 10)
qtyScore == ratio(1, 10)
poPatternThreshold == ratio(5, 10)
poCorrectionThreshold == ratio(7, 10)

\* score += 0.1, n times
RECURSIVE plusTenths(_, _)
plusTenths(score, n) == IF n = 0 THEN score ELSE plusTenths(plus(score, qtyScore), n - 1)

\* days = Math.abs(invoice date - order date) / 864e5
daysBetween(po, invoice) == ratio(Abs(invoice.invoiceDate - po.date), TicksPerDay)

\* score += 0.2 * (1 - days / 30) when days <= 30
plusDate(score, days) ==
  IF compare(days, fromInt(30)) <= 0
  THEN plus(score, times(dateWeight, minus(fromInt(1), over(days, 30))))
  ELSE score

\* score += 0.3 * matched.length / Math.max(invSkus.size, poSkus.size) when a
\* SKU matched
plusSkus(score, invSkus, poSkus) ==
  IF invSkus \cap poSkus # {}
  THEN plus(score, over(times(skuWeight, fromInt(Cardinality(invSkus \cap poSkus))),
                        Max(Cardinality(invSkus), Cardinality(poSkus))))
  ELSE score

\* the score of one order of the invoice's vendor, a double
poScore(po, invoice) ==
  plusTenths(
    plusSkus(plusDate(vendorScore, daysBetween(po, invoice)),
             {lineItemsOf(invoice)[i].sku : i \in 1..Len(lineItemsOf(invoice))} \ {""},
             {po.lineItems[i].sku : i \in 1..Len(po.lineItems)}),
    Cardinality({i \in 1..Len(lineItemsOf(invoice)) : qtyMatches(po, lineItemsOf(invoice)[i])}))

\* the reasons r of one order: its kind and, for the date, Math.round(days),
\* for the SKUs the matched ones, for a quantity the index of the line item
poReasons(po, invoice) ==
  LET lineItems == lineItemsOf(invoice)
      diff == Abs(invoice.invoiceDate - po.date)
      invSkus == {lineItems[i].sku : i \in 1..Len(lineItems)} \ {""}
      poSkus == {po.lineItems[i].sku : i \in 1..Len(po.lineItems)}
      matched == invSkus \cap poSkus
  IN <<[reason |-> "Vendor match"]>>
     \o (IF diff <= 30 * TicksPerDay
         THEN <<[reason |-> "Date within",
                 days |-> (2 * diff + TicksPerDay) \div (2 * TicksPerDay)]>>
         ELSE <<>>)
     \o (IF lineItems # <<>> /\ matched # {}
         THEN <<[reason |-> "SKU", skus |-> matched]>> ELSE <<>>)
     \o [k \in 1..Cardinality({i \in 1..Len(lineItems) : qtyMatches(po, lineItems[i])}) |->
          [reason |-> "Qty match"]]

\* the loop of findMatchingPO taking an order that only equals the best score
betterOrderLastWins(best, i, score) ==
  IF compare(score, best.score) >= 0 THEN [best EXCEPT !.index = i, !.score = score] ELSE best

\* if (score > bestScore) { bestScore = score; best = po; }
betterOrder(best, i, score) ==
  IF compare(score, best.score) > 0 THEN [best EXCEPT !.index = i, !.score = score] ELSE best

RECURSIVE bestOrder(_, _, _)
\* the loop of findMatchingPO: best.index is an index into orders, 0 for null;
\* the first order of the vendor ends the loop with a TypeError when the line
\* items cannot be mapped
bestOrder(i, best, invoice) ==
  IF i > Len(orders) THEN best
  ELSE IF trim(toLowerCase(orders[i].vendor)) # trim(toLowerCase(invoice.vendorId))
       THEN bestOrder(i + 1, best, invoice)
       ELSE IF mapThrows(invoice) THEN [best EXCEPT !.threw = TRUE]
            ELSE bestOrder(i + 1, betterOrder(best, i, poScore(orders[i], invoice)), invoice)

\* return { matchedPO: best, confidence: Math.min(bestScore, 1), matchReasons }
poMatchOf(best, invoice) ==
  IF best.threw THEN [threw |-> TRUE]
  ELSE [threw |-> FALSE, matchedPO |-> best.index,
        confidence |-> IF compare(best.score, fromInt(1)) <= 0 THEN best.score
                       ELSE fromInt(1),
        matchReasons |-> IF best.index = 0 THEN <<>>
                         ELSE poReasons(orders[best.index], invoice)]

findMatchingPO(invoice) ==
  poMatchOf(bestOrder(1, [index |-> 0, score |-> fromInt(0), threw |-> FALSE], invoice),
            invoice)

(***************************************************************************)
(* DecisionService                                                         *)
(***************************************************************************)
\* checkForDuplicates that looks the vendor up without normalizeVendorName
checkForDuplicatesRawVendor(invoice) ==
  findPotentialDuplicates(invoice.vendorId, invoice.invoiceNumber, invoice.invoiceDate)
    \ {invoice.id}

\* checkForDuplicates that keeps the invoice's own id among the hits
checkForDuplicatesWithSelf(invoice) ==
  findPotentialDuplicates(normalizeVendorName(invoice.vendorId), invoice.invoiceNumber,
                          invoice.invoiceDate)

checkForDuplicates(invoice) ==
  findPotentialDuplicates(normalizeVendorName(invoice.vendorId), invoice.invoiceNumber,
                          invoice.invoiceDate) \ {invoice.id}

\* the largest confidence among the applied memories of a field; -1 when none
memConf(applied, name) ==
  LET cs == {applied[i].confidence : i \in {j \in 1..Len(applied) : applied[j].fieldName = name}}
  IN IF cs = {} THEN -1 ELSE CHOOSE c \in cs : \A d \in cs : d <= c

RECURSIVE sumFieldConfidenceUncapped(_, _)
\* the sum with an unmatched field counted at its extraction confidence
sumFieldConfidenceUncapped(fields, applied) ==
  IF fields = <<>> THEN 0
  ELSE LET f == Head(fields)
           m == memConf(applied, f.name)
       IN (IF m >= 0 THEN MulFix(m, Min(f.extractionConfidence, Scale))
           ELSE Min(f.extractionConfidence, Scale))
          + sumFieldConfidenceUncapped(Tail(fields), applied)

RECURSIVE sumFieldConfidence(_, _)
sumFieldConfidence(fields, applied) ==
  IF fields = <<>> THEN 0
  ELSE LET f == Head(fields)
           m == memConf(applied, f.name)
       IN (IF m >= 0 THEN MulFix(m, Min(f.extractionConfidence, Scale))
           ELSE Min(f.extractionConfidence, suggestionThreshold - 10000))
          + sumFieldConfidence(Tail(fields), applied)

calcOverallConfidence(invoice, applied) ==
  IF invoice.fields = <<>> THEN 0
  ELSE Max(0, Min(Scale, sumFieldConfidence(invoice.fields, applied) \div Len(invoice.fields)))

RECURSIVE sweepMemoriesTallyOnly(_, _)
\* the sweep that flags the field of a low-confidence memory without forcing review
sweepMemoriesTallyOnly(acc, applied) ==
  IF applied = <<>> THEN acc
  ELSE LET mem == Head(applied)
       IN sweepMemoriesTallyOnly(
            IF mem.confidence >= autoApplyThreshold
            THEN [acc EXCEPT !.highConfCount = @ + 1]
            ELSE IF mem.confidence < suggestionThreshold /\ mem.fieldName \notin Range(acc.flagged)
                 THEN [acc EXCEPT !.flagged = Append(@, mem.fieldName)]
                 ELSE acc,
            Tail(applied))

RECURSIVE sweepMemories(_, _)
\* the low-confidence sweep: the flagged fields, the tally and whether review is forced
sweepMemories(acc, applied) ==
  IF applied = <<>> THEN acc
  ELSE LET mem == Head(applied)
       IN sweepMemories(
            IF mem.confidence >= autoApplyThreshold
            THEN [acc EXCEPT !.highConfCount = @ + 1]
            ELSE IF mem.confidence < suggestionThreshold /\ mem.fieldName \notin Range(acc.flagged)
                 THEN [acc EXCEPT !.review = TRUE, !.flagged = Append(@, mem.fieldName)]
                 ELSE acc,
            Tail(applied))

\* the DecisionResult, once the checks of makeDecision are made
decisionResult(appliedResult, invoice, detectedPatterns, duplicates, lowExtraction, unmatched, swept, requiresHumanReview) ==
  LET names == fieldNames(invoice)
      reasons ==
        (IF duplicates # {} THEN <<"Potential duplicate">> ELSE <<>>)
        \o (IF lowExtraction # <<>> THEN <<"Low extraction confidence">> ELSE <<>>)
        \o (IF unmatched # <<>> THEN <<"No memory match">> ELSE <<>>)
        \o (IF appliedResult.proposedCorrections # <<>> THEN <<"proposed correction(s)">> ELSE <<>>)
        \o [i \in 1..Len(detectedPatterns) |-> detectedPatterns[i].suggestedAction]
      summary ==
        IF ~requiresHumanReview /\ swept.highConfCount = Len(names) /\ Len(names) > 0
        THEN <<"All fields high confidence. Auto-accept recommended.">>
        ELSE IF requiresHumanReview THEN <<"Human review required.">> ELSE <<>>
  IN [requiresHumanReview |-> requiresHumanReview,
      overallConfidence |-> calcOverallConfidence(invoice, appliedResult.appliedMemories),
      reasoning |-> summary \o reasons,
      flaggedFields |-> swept.flagged,
      duplicateIds |-> duplicates]

\* the checks of makeDecision that set requiresHumanReview
decideReview(appliedResult, invoice, detectedPatterns, duplicates, lowExtraction, unmatched, swept) ==
  decisionResult(appliedResult, invoice, detectedPatterns, duplicates, lowExtraction, unmatched,
    swept,
    \/ duplicates # {}
    \/ lowExtraction # <<>>
    \/ unmatched # <<>>
    \/ swept.review
    \/ appliedResult.proposedCorrections # <<>>
    \/ \E i \in 1..Len(detectedPatterns) : detectedPatterns[i].type = "tax_inclusive")

\* the sweep over the applied memories starts from the fields flagged so far
decideFlagged(appliedResult, invoice, detectedPatterns, duplicates, lowExtraction, unmatched) ==
  decideReview(appliedResult, invoice, detectedPatterns, duplicates, lowExtraction, unmatched,
    sweepMemories([review |-> FALSE,
                   flagged |-> lowExtraction
                               \o SelectSeq(unmatched, LAMBDA n : n \notin Range(lowExtraction)),
                   highConfCount |-> 0],
                  appliedResult.appliedMemories))

makeDecision(appliedResult, invoice, detectedPatterns) ==
  decideFlagged(appliedResult, invoice, detectedPatterns,
    checkForDuplicates(invoice),
    SelectSeq(fieldNames(invoice),
              LAMBDA n : FieldOf(invoice, n).extractionConfidence < 600000),
    SelectSeq(fieldNames(invoice),
              LAMBDA n : n \notin {appliedResult.appliedMemories[i].fieldName :
                                     i \in 1..Len(appliedResult.appliedMemories)}))


(***************************************************************************)
(* LearnService                                                            *)
(***************************************************************************)
ContributingMemory(memoryId, memoryType, fieldName, extractedValue) ==
  [memoryId |-> memoryId, memoryType |-> memoryType, fieldName |-> fieldName,
   extractedValue |-> extractedValue]

\* a registration that keeps what an earlier pass of the invoice registered
registerContributingMemoriesKeepingFirst(map, invoiceId, mems) ==
  [x \in DOMAIN map \cup {invoiceId} |->
     IF x \in DOMAIN map THEN map[x] ELSE mems]

\* this.contributingMemories.set(invoiceId, memories)
registerContributingMemories(map, invoiceId, mems) ==
  [x \in DOMAIN map \cup {invoiceId} |-> IF x = invoiceId THEN mems ELSE map[x]]

\* this.contributingMemories.get(invoice.id) || []
contributingOf(map, invoiceId) == IF invoiceId \in DOMAIN map THEN map[invoiceId] ELSE <<>>

\* learnFromFeedback without the final contributingMemories.delete
deleteContributingSkipped(map, invoiceId) == map

\* this.contributingMemories.delete(invoice.id)
deleteContributing(map, invoiceId) == [x \in DOMAIN map \ {invoiceId} |-> map[x]]

\* the tables and the LearningResult while one learnFromFeedback call runs;
\* threw: a repository statement failed and the call is abandoned
LearnState(vm, cm) ==
  [vm |-> vm, cm |-> cm, created |-> <<>>, updated |-> <<>>, deactivated |-> <<>>,
   threw |-> FALSE]

MemoryRef(memoryType, memoryId) == [memoryType |-> memoryType, memoryId |-> memoryId]

\* updateMemory that omits update.applicationCount on reinforce
updatedRowUncounted(existing, action) ==
  CASE action = "reinforce" ->
         [existing EXCEPT !.confidence = applyReinforcement(existing.confidence),
                          !.consecutiveRejections = 0]
    [] action = "penalize" ->
         [existing EXCEPT !.confidence = applyPenalty(existing.confidence),
                          !.consecutiveRejections = @ + 1,
                          !.isActive =
                             IF existing.consecutiveRejections + 1
                                  >= maxConsecutiveRejectionsBeforeDeactivation
                             THEN FALSE ELSE @]
    [] OTHER ->
         [existing EXCEPT !.confidence = applyContradiction(existing.confidence)]

\* updateMemory that deactivates with > in place of >=
updatedRowLate(existing, action) ==
  CASE action = "reinforce" ->
         [existing EXCEPT !.confidence = applyReinforcement(existing.confidence),
                          !.consecutiveRejections = 0,
                          !.applicationCount = @ + 1]
    [] action = "penalize" ->
         [existing EXCEPT !.confidence = applyPenalty(existing.confidence),
                          !.consecutiveRejections = @ + 1,
                          !.isActive =
                             IF existing.consecutiveRejections + 1
                                  > maxConsecutiveRejectionsBeforeDeactivation
                             THEN FALSE ELSE @]
    [] OTHER ->
         [existing EXCEPT !.confidence = applyContradiction(existing.confidence)]

\* updateMemory whose reinforcement sets the active flag again
updatedRowReviving(existing, action) ==
  CASE action = "reinforce" ->
         [existing EXCEPT !.confidence = applyReinforcement(existing.confidence),
                          !.consecutiveRejections = 0,
                          !.applicationCount = @ + 1,
                          !.isActive = TRUE]
    [] action = "penalize" ->
         [existing EXCEPT !.confidence = applyPenalty(existing.confidence),
                          !.consecutiveRejections = @ + 1,
                          !.isActive =
                             IF existing.consecutiveRejections + 1
                                  >= maxConsecutiveRejectionsBeforeDeactivation
                             THEN FALSE ELSE @]
    [] OTHER ->
         [existing EXCEPT !.confidence = applyContradiction(existing.confidence)]

\* the row after updateMemory's UPDATE
updatedRow(existing, action) ==
  CASE action = "reinforce" ->
         [existing EXCEPT !.confidence = applyReinforcement(existing.confidence),
                          !.consecutiveRejections = 0,
                          !.applicationCount = @ + 1]
    [] action = "penalize" ->
         [existing EXCEPT !.confidence = applyPenalty(existing.confidence),
                          !.consecutiveRejections = @ + 1,
                          !.isActive =
                             IF existing.consecutiveRejections + 1
                                  >= maxConsecutiveRejectionsBeforeDeactivation
                             THEN FALSE ELSE @]
    [] OTHER ->
         [existing EXCEPT !.confidence = applyContradiction(existing.confidence)]

updateMemory(st, mem, action) ==
  LET table == IF mem.memoryType = "vendor" THEN st.vm ELSE st.cm
  IN IF mem.memoryId \notin 1..Len(table) THEN st
     ELSE LET row == updatedRow(table[mem.memoryId], action)
              ref == MemoryRef(mem.memoryType, mem.memoryId)
          IN [st EXCEPT
                !.vm = IF mem.memoryType = "vendor" THEN [@ EXCEPT ![mem.memoryId] = row] ELSE @,
                !.cm = IF mem.memoryType = "vendor" THEN @ ELSE [@ EXCEPT ![mem.memoryId] = row],
                !.deactivated = IF ~row.isActive THEN Append(@, ref) ELSE @,
                !.updated = IF row.isActive THEN Append(@, ref) ELSE @]

\* the value the memory suggested, Null when there is none
getMemorySuggestedValue(st, mem) ==
  IF mem.extractedValue # Undefined THEN mem.extractedValue
  ELSE IF mem.memoryType = "correction" /\ mem.memoryId \in 1..Len(st.cm)
       THEN Str(st.cm[mem.memoryId].correctedValue)
       ELSE Null

VendorMemory(id, vendorId, vendorName, originalFieldName, normalizedFieldName) ==
  [id |-> id, vendorId |-> vendorId, vendorName |-> vendorName,
   originalFieldName |-> originalFieldName, normalizedFieldName |-> normalizedFieldName,
   confidence |-> initialHumanCorrectionConfidence, applicationCount |-> 0,
   consecutiveRejections |-> 0, isActive |-> TRUE]

CorrectionMemory(id, vendorId, fieldName, originalValuePattern, correctedValue) ==
  [id |-> id, vendorId |-> vendorId, fieldName |-> fieldName,
   originalValuePattern |-> originalValuePattern, correctedValue |-> correctedValue,
   confidence |-> initialHumanCorrectionConfidence, applicationCount |-> 0,
   consecutiveRejections |-> 0, isActive |-> TRUE]

\* a vendor_memories table without the UNIQUE constraint
violatesUniqueNever(table, vendorId, originalFieldName) == FALSE

\* INSERT INTO vendor_memories fails on UNIQUE(vendor_id, original_field_name)
violatesUnique(table, vendorId, originalFieldName) ==
  \E i \in 1..Len(table) :
    table[i].vendorId = vendorId /\ table[i].originalFieldName = originalFieldName

\* createMemory that merges a repeated correction into the stored correction
\* memory of the vendor, the field and the corrected value
createMemoryMerging(st, corr, invoice, vendorId) ==
  LET hasField == HasField(invoice, corr.fieldName)
      label == IF hasField THEN FieldOf(invoice, corr.fieldName).originalLabel ELSE NoLabel
      isMapping == label # NoLabel /\ label # corr.fieldName
      found == SelectSeq(findVendorMemoriesIn(st.vm, vendorId),
                 LAMBDA m : m.originalFieldName = label /\ m.normalizedFieldName = corr.fieldName)
      same == SelectSeq(st.cm,
                LAMBDA m : /\ m.vendorId = vendorId
                           /\ m.fieldName = corr.fieldName
                           /\ m.correctedValue = StringOf(corr.correctedValue))
  IN IF isMapping
     THEN IF found # <<>>
          THEN LET existing == Head(found)
               IN [st EXCEPT
                     !.vm[existing.id] =
                        [@ EXCEPT !.confidence = applyReinforcement(existing.confidence),
                                  !.applicationCount = existing.applicationCount + 1,
                                  !.consecutiveRejections = 0],
                     !.updated = Append(@, MemoryRef("vendor", existing.id))]
          ELSE IF violatesUnique(st.vm, vendorId, label)
               THEN [st EXCEPT !.threw = TRUE]
               ELSE [st EXCEPT
                       !.vm = Append(@, VendorMemory(Len(st.vm) + 1, vendorId,
                                                     invoice.vendorName, label, corr.fieldName)),
                       !.created = Append(@, MemoryRef("vendor", Len(st.vm) + 1))]
     ELSE IF same # <<>>
          THEN [st EXCEPT
                  !.cm[Head(same).id] =
                     [@ EXCEPT !.confidence = applyReinforcement(Head(same).confidence)],
                  !.updated = Append(@, MemoryRef("correction", Head(same).id))]
          ELSE [st EXCEPT
                  !.cm = Append(@, CorrectionMemory(Len(st.cm) + 1, vendorId, corr.fieldName,
                           IF IsNullish(corr.originalValue) THEN <<"*">>
                           ELSE StringOf(corr.originalValue),
                           StringOf(corr.correctedValue))),
                  !.created = Append(@, MemoryRef("correction", Len(st.cm) + 1))]

createMemory(st, corr, invoice, vendorId) ==
  LET hasField == HasField(invoice, corr.fieldName)
      label == IF hasField THEN FieldOf(invoice, corr.fieldName).originalLabel ELSE NoLabel
      isMapping == label # NoLabel /\ label # corr.fieldName
      found == SelectSeq(findVendorMemoriesIn(st.vm, vendorId),
                 LAMBDA m : m.originalFieldName = label /\ m.normalizedFieldName = corr.fieldName)
  IN IF isMapping
     THEN IF found # <<>>
          THEN LET existing == Head(found)
               IN [st EXCEPT
                     !.vm[existing.id] =
                        [@ EXCEPT !.confidence = applyReinforcement(existing.confidence),
                                  !.applicationCount = existing.applicationCount + 1,
                                  !.consecutiveRejections = 0],
                     !.updated = Append(@, MemoryRef("vendor", existing.id))]
          ELSE IF violatesUnique(st.vm, vendorId, label)
               THEN [st EXCEPT !.threw = TRUE]
               ELSE [st EXCEPT
                       !.vm = Append(@, VendorMemory(Len(st.vm) + 1, vendorId,
                                                     invoice.vendorName, label, corr.fieldName)),
                       !.created = Append(@, MemoryRef("vendor", Len(st.vm) + 1))]
     ELSE [st EXCEPT
             !.cm = Append(@, CorrectionMemory(Len(st.cm) + 1, vendorId, corr.fieldName,
                      IF IsNullish(corr.originalValue) THEN <<"*">>
                      ELSE StringOf(corr.originalValue),
                      StringOf(corr.correctedValue))),
             !.created = Append(@, MemoryRef("correction", Len(st.cm) + 1))]

\* contributing.find that takes the first registered memory of any field
findContributingAnyField(contributing, fieldName) ==
  IF contributing = <<>> THEN 0 ELSE 1

\* contributing.find(m => m.fieldName === fieldName): an index, 0 when none
findContributing(contributing, fieldName) ==
  IF \E i \in 1..Len(contributing) : contributing[i].fieldName = fieldName
  THEN CHOOSE i \in 1..Len(contributing) :
         /\ contributing[i].fieldName = fieldName
         /\ \A j \in 1..(i - 1) : contributing[j].fieldName # fieldName
  ELSE 0

\* the loop body without the continue after a confirming correction
learnCorrectionAlwaysCreates(st, corr, contributing, invoice, vendorId) ==
  LET k == findContributing(contributing, corr.fieldName)
  IN IF k = 0 THEN createMemory(st, corr, invoice, vendorId)
     ELSE LET memoryValue == getMemorySuggestedValue(st, contributing[k])
          IN IF memoryValue # Null /\ StringOf(memoryValue) = StringOf(corr.correctedValue)
             THEN createMemory(updateMemory(st, contributing[k], "reinforce"),
                               corr, invoice, vendorId)
             ELSE createMemory(updateMemory(st, contributing[k], "contradict"),
                               corr, invoice, vendorId)

\* the body of the loop over feedback.corrections
learnCorrection(st, corr, contributing, invoice, vendorId) ==
  LET k == findContributing(contributing, corr.fieldName)
  IN IF k = 0 THEN createMemory(st, corr, invoice, vendorId)
     ELSE LET memoryValue == getMemorySuggestedValue(st, contributing[k])
          IN IF memoryValue # Null /\ StringOf(memoryValue) = StringOf(corr.correctedValue)
             THEN updateMemory(st, contributing[k], "reinforce")
             ELSE createMemory(updateMemory(st, contributing[k], "contradict"),
                               corr, invoice, vendorId)

RECURSIVE learnCorrections(_, _, _, _, _)
learnCorrections(st, corrections, contributing, invoice, vendorId) ==
  IF corrections = <<>> \/ st.threw THEN st
  ELSE learnCorrections(learnCorrection(st, Head(corrections), contributing, invoice, vendorId),
                        Tail(corrections), contributing, invoice, vendorId)

RECURSIVE updateAll(_, _, _)
\* contributing.forEach(m => this.updateMemory(m, action, result))
updateAll(st, contributing, action) ==
  IF contributing = <<>> THEN st
  ELSE updateAll(updateMemory(st, Head(contributing), action), Tail(contributing), action)

\* learnFromFeedback that takes a correct feedback without a list for a reject
learnListlessAsReject(feedback, invoice, contributing) ==
  LET st == LearnState(vendorMemories, correctionMemories)
  IN CASE feedback.action = "approve" -> updateAll(st, contributing, "reinforce")
       [] feedback.action = "reject" -> updateAll(st, contributing, "penalize")
       [] feedback.action = "correct" /\ feedback.hasCorrections ->
            learnCorrections(st, feedback.corrections, contributing, invoice,
                             normalizeVendorName(invoice.vendorId))
       [] OTHER -> updateAll(st, contributing, "penalize")

\* learnFromFeedback up to the audit entry: the tables and the result lists
learn(feedback, invoice, contributing) ==
  LET st == LearnState(vendorMemories, correctionMemories)
  IN CASE feedback.action = "approve" -> updateAll(st, contributing, "reinforce")
       [] feedback.action = "reject" -> updateAll(st, contributing, "penalize")
       [] feedback.action = "correct" /\ feedback.hasCorrections ->
            learnCorrections(st, feedback.corrections, contributing, invoice,
                             normalizeVendorName(invoice.vendorId))
       [] OTHER -> st

(***************************************************************************)
(* InvoiceProcessor                                                        *)
(***************************************************************************)
\* appliedMemories.filter(vendor or correction).map(...)
extractContributingMemories(applied) ==
  LET kept == SelectSeqBy(applied, {i \in 1..Len(applied) :
                                     applied[i].memoryType \in {"vendor", "correction"}})
  IN [i \in 1..Len(kept) |->
        ContributingMemory(kept[i].memoryId, kept[i].memoryType, kept[i].fieldName,
                           kept[i].extractedValue)]

\* the ProcessingResult, and what the stages handed on
processResult(invoice, recall, apply, proposedCorrections, detectedPatterns, decision) ==
  [op |-> "processInvoice",
   invoiceId |-> invoice.id,
   threw |-> FALSE,
   \* the ProcessingResult
   normalizedInvoice |-> apply.normalizedInvoice,
   proposedCorrections |-> proposedCorrections,
   patternStrings |-> detectedPatterns,
   requiresHumanReview |-> decision.requiresHumanReview,
   reasoning |-> decision.reasoning,
   confidenceScore |-> Max(0, Min(Scale, decision.overallConfidence)),
   recallDetails |-> recall.auditDetails,
   \* what the stages handed on
   recalled |-> recall.memories,
   appliedMemories |-> apply.appliedMemories,
   duplicateIds |-> decision.duplicateIds,
   flaggedFields |-> decision.flaggedFields]

\* the decision stage
processDecide(invoice, recall, apply, proposedCorrections, detectedPatterns) ==
  processResult(invoice, recall, apply, proposedCorrections, detectedPatterns,
    makeDecision([appliedMemories |-> apply.appliedMemories,
                  proposedCorrections |-> proposedCorrections],
                 invoice, detectedPatterns))

\* what PO matching adds to the patterns and to the proposed corrections
processMatched(invoice, recall, apply, poMatch, poPattern) ==
  processDecide(invoice, recall, apply,
    apply.proposedCorrections
    \o (IF poPattern /\ compare(poMatch.confidence, poCorrectionThreshold) >= 0
        THEN <<ProposedCorrection("poNumber", Null, Str(orders[poMatch.matchedPO].poNumber),
                                  0, "po-matching-service", poMatch.confidence)>>
        ELSE <<>>),
    apply.detectedPatterns
    \o (IF poPattern THEN <<DetectedPattern("po_match", "poNumber", "PO match suggested")>>
        ELSE <<>>))

\* processInvoice left by the TypeError of findMatchingPO: nothing is returned
processThrew(invoice) == [op |-> "processInvoice", invoiceId |-> invoice.id, threw |-> TRUE]

\* PO matching that surfaces a match only above 0.5
processAppliedStrict(invoice, recall, apply, poMatch) ==
  IF ~Truthy(Get(apply.normalizedInvoice, "poNumber")) /\ poMatch.threw
  THEN processThrew(invoice)
  ELSE processMatched(invoice, recall, apply, poMatch,
         /\ ~Truthy(Get(apply.normalizedInvoice, "poNumber"))
         /\ poMatch.matchedPO # 0
         /\ compare(poMatch.confidence, poPatternThreshold) > 0)

\* PO matching runs when the normalized record has no poNumber
processApplied(invoice, recall, apply, poMatch) ==
  IF ~Truthy(Get(apply.normalizedInvoice, "poNumber")) /\ poMatch.threw
  THEN processThrew(invoice)
  ELSE processMatched(invoice, recall, apply, poMatch,
         /\ ~Truthy(Get(apply.normalizedInvoice, "poNumber"))
         /\ poMatch.matchedPO # 0
         /\ compare(poMatch.confidence, poPatternThreshold) >= 0)

\* the apply stage and PO matching
processRecalled(invoice, recall) ==
  processApplied(invoice, recall, applyMemories(invoice, recall.memories),
                 findMatchingPO(invoice))

\* the processing pass of one invoice, up to the ProcessingResult
process(invoice) == processRecalled(invoice, recallMemories(invoice))

NoCall == [op |-> "none"]

Init ==
  /\ vendorMemories = <<>>
  /\ correctionMemories = <<>>
  /\ resolutionMemories = <<>>
  /\ processedInvoices = <<>>
  /\ auditTrail = [step \in {"recall", "apply", "decide", "learn"} |-> 0]
  /\ contributingMemories = <<>>
  /\ orders = <<>>
  /\ calls = 0
  /\ last = NoCall

SetPurchaseOrders(list) ==
  /\ orders # list
  /\ orders' = list
  /\ UNCHANGED <<vendorMemories, correctionMemories, resolutionMemories, processedInvoices,
                 auditTrail, contributingMemories, calls, last>>

\* a ResolutionMemory; its context and its dates are left out
ResolutionMemory(id, discrepancyType, approvalCount, rejectionCount) ==
  [id |-> id, discrepancyType |-> discrepancyType, approvalCount |-> approvalCount,
   rejectionCount |-> rejectionCount, isActive |-> TRUE]

\* the keys of VENDOR_FIELDS, CORRECTION_FIELDS and RESOLUTION_FIELDS: the
\* columns an update may set
VENDOR_FIELDS ==
  {"confidence", "applicationCount", "consecutiveRejections", "lastUsedAt", "isActive"}
CORRECTION_FIELDS == VENDOR_FIELDS \cup {"correctedValue"}
RESOLUTION_FIELDS == {"approvalCount", "rejectionCount", "lastUsedAt", "isActive", "context"}

\* buildUpdate: UPDATE table SET the columns of fieldMap that the updates name
\* WHERE id = ?; a key outside fieldMap is ignored, and no row is changed when
\* none has the id
buildUpdate(table, id, updates, fieldMap) ==
  [i \in 1..Len(table) |->
     IF table[i].id = id
     THEN [k \in DOMAIN table[i] |->
             IF k \in fieldMap /\ k \in DOMAIN updates THEN updates[k] ELSE table[i][k]]
     ELSE table[i]]

\* INSERT fails on id TEXT PRIMARY KEY
hasId(table, id) == \E i \in 1..Len(table) : table[i].id = id

\* The rows saved and the updates made in the behaviours of Spec.  A caller
\* names a row by an id that is stored already or by the next free one.
\* A mapping of the second vendor that is stored inactive:
VendorInputs(id) ==
  {[VendorMemory(id, normalizeVendorName(VendorAbC), VendorAbC, "Lieferdatum", "deliveryDate")
      EXCEPT !.isActive = FALSE]}
\* a confidence below minimumThreshold; vendorName is no column of an update
VendorUpdates == {[confidence |-> 400000, vendorName |-> VendorXY]}
\* a correction memory of no vendor (vendor_id NULL) at maxConfidence:
CorrectionInputs(id) ==
  {[CorrectionMemory(id, NullVendor, "poNumber", <<"*">>, <<"P", "O", "-", "1">>)
      EXCEPT !.confidence = maxConfidence]}
\* fieldName is no column of an update
CorrectionUpdates == {[isActive |-> FALSE, fieldName |-> "serviceDate"]}
ResolutionInputs ==
  {ResolutionMemory(id, "date_mismatch", id, id - 1) : id \in 1..MaxResolutionMemories}
\* discrepancyType is no column of an update
ResolutionUpdates ==
  {[approvalCount |-> 0, isActive |-> FALSE, discrepancyType |-> "po_mismatch"]}

\* the steps of the audit entries a caller saves
AuditInputs == {"recall", "apply", "decide", "learn"}
\* an invoice of the first vendor with the number of INV-1, dated five days
\* after it, that no processInvoice call has seen
ProcessedInputs ==
  {[id |-> "INV-9", vendorId |-> normalizeVendorName(VendorAbC), invoiceNumber |-> "N1",
    invoiceDate |-> 30]}

\* MemoryRepository.saveAuditEntry: INSERT INTO audit_trail under a fresh id
SaveAuditEntry(step) ==
  /\ calls' = calls + 1
  /\ auditTrail' = saveAuditEntry(auditTrail, step)
  /\ last' = [op |-> "saveAuditEntry", step |-> step]
  /\ UNCHANGED <<vendorMemories, correctionMemories, resolutionMemories, processedInvoices,
                 contributingMemories, orders>>

\* MemoryRepository.saveProcessedInvoice: INSERT OR REPLACE INTO
\* processed_invoices
SaveProcessedInvoice(row) ==
  /\ calls' = calls + 1
  /\ processedInvoices' = saveProcessedInvoice(processedInvoices, row.id, row.vendorId,
                                               row.invoiceNumber, row.invoiceDate)
  /\ last' = [op |-> "saveProcessedInvoice", row |-> row]
  /\ UNCHANGED <<vendorMemories, correctionMemories, resolutionMemories, auditTrail,
                 contributingMemories, orders>>

\* MemoryRepository.saveVendorMemory: INSERT INTO vendor_memories, which fails
\* on a stored id and on UNIQUE(vendor_id, original_field_name)
SaveVendorMemory(m) ==
  LET fails == \/ hasId(vendorMemories, m.id)
               \/ violatesUnique(vendorMemories, m.vendorId, m.originalFieldName)
  IN /\ calls' = calls + 1
     /\ vendorMemories' = IF fails THEN vendorMemories ELSE Append(vendorMemories, m)
     /\ last' = [op |-> "saveVendorMemory", memory |-> m, threw |-> fails]
     /\ UNCHANGED <<correctionMemories, resolutionMemories, processedInvoices, auditTrail,
                    contributingMemories, orders>>

\* MemoryRepository.updateVendorMemory
UpdateVendorMemory(id, updates) ==
  /\ calls' = calls + 1
  /\ vendorMemories' = buildUpdate(vendorMemories, id, updates, VENDOR_FIELDS)
  /\ last' = [op |-> "updateVendorMemory", id |-> id, updates |-> updates]
  /\ UNCHANGED <<correctionMemories, resolutionMemories, processedInvoices, auditTrail,
                 contributingMemories, orders>>

\* MemoryRepository.saveCorrectionMemory: INSERT INTO correction_memories, which
\* fails on a stored id
SaveCorrectionMemory(m) ==
  LET fails == hasId(correctionMemories, m.id)
  IN /\ calls' = calls + 1
     /\ correctionMemories' =
          IF fails THEN correctionMemories ELSE Append(correctionMemories, m)
     /\ last' = [op |-> "saveCorrectionMemory", memory |-> m, threw |-> fails]
     /\ UNCHANGED <<vendorMemories, resolutionMemories, processedInvoices, auditTrail,
                    contributingMemories, orders>>

\* MemoryRepository.updateCorrectionMemory
UpdateCorrectionMemory(id, updates) ==
  /\ calls' = calls + 1
  /\ correctionMemories' = buildUpdate(correctionMemories, id, updates, CORRECTION_FIELDS)
  /\ last' = [op |-> "updateCorrectionMemory", id |-> id, updates |-> updates]
  /\ UNCHANGED <<vendorMemories, resolutionMemories, processedInvoices, auditTrail,
                 contributingMemories, orders>>

\* MemoryRepository.saveResolutionMemory: INSERT INTO resolution_memories, which
\* fails on a stored id
SaveResolutionMemory(m) ==
  LET fails == hasId(resolutionMemories, m.id)
  IN /\ calls' = calls + 1
     /\ resolutionMemories' =
          IF fails THEN resolutionMemories ELSE Append(resolutionMemories, m)
     /\ last' = [op |-> "saveResolutionMemory", memory |-> m, threw |-> fails]
     /\ UNCHANGED <<vendorMemories, correctionMemories, processedInvoices, auditTrail,
                    contributingMemories, orders>>

\* MemoryRepository.updateResolutionMemory
UpdateResolutionMemory(id, updates) ==
  /\ calls' = calls + 1
  /\ resolutionMemories' = buildUpdate(resolutionMemories, id, updates, RESOLUTION_FIELDS)
  /\ last' = [op |-> "updateResolutionMemory", id |-> id, updates |-> updates]
  /\ UNCHANGED <<vendorMemories, correctionMemories, processedInvoices, auditTrail,
                 contributingMemories, orders>>

\* processInvoice that counts an application on every vendor memory it applied
ProcessInvoiceCounting(id) ==
  LET invoice == Invoice(id)
  IN /\ calls' = calls + 1
     /\ last' = process(invoice)
     /\ auditTrail' = saveAuditEntry(saveAuditEntry(saveAuditEntry(auditTrail, "recall"),
                                                    "apply"), "decide")
     /\ contributingMemories' =
          registerContributingMemories(contributingMemories, invoice.id,
                                       extractContributingMemories(last'.appliedMemories))
     /\ processedInvoices' =
          saveProcessedInvoice(processedInvoices, invoice.id,
                               normalizeVendorName(invoice.vendorId), invoice.invoiceNumber,
                               invoice.invoiceDate)
     /\ vendorMemories' =
          [i \in 1..Len(vendorMemories) |->
             IF \E k \in 1..Len(last'.appliedMemories) :
                  /\ last'.appliedMemories[k].memoryType = "vendor"
                  /\ last'.appliedMemories[k].memoryId = i
             THEN [vendorMemories[i] EXCEPT !.applicationCount = @ + 1]
             ELSE vendorMemories[i]]
     /\ UNCHANGED <<correctionMemories, resolutionMemories, orders>>

\* processInvoice that records the invoice only when it found no duplicate
ProcessInvoiceUnlessDuplicate(id) ==
  LET invoice == Invoice(id)
  IN /\ calls' = calls + 1
     /\ last' = process(invoice)
     /\ auditTrail' = saveAuditEntry(saveAuditEntry(saveAuditEntry(auditTrail, "recall"),
                                                    "apply"), "decide")
     /\ contributingMemories' =
          registerContributingMemories(contributingMemories, invoice.id,
                                       extractContributingMemories(last'.appliedMemories))
     /\ processedInvoices' =
          IF last'.duplicateIds # {} THEN processedInvoices
          ELSE saveProcessedInvoice(processedInvoices, invoice.id,
                                    normalizeVendorName(invoice.vendorId),
                                    invoice.invoiceNumber, invoice.invoiceDate)
     /\ UNCHANGED <<vendorMemories, correctionMemories, resolutionMemories, orders>>

\* processInvoice; when findMatchingPO throws, the audit entries of Recall and
\* Apply are saved already and nothing else is done
ProcessInvoice(id) ==
  LET invoice == Invoice(id)
  IN /\ calls' = calls + 1
     /\ last' = process(invoice)
     /\ auditTrail' =
          IF last'.threw THEN saveAuditEntry(saveAuditEntry(auditTrail, "recall"), "apply")
          ELSE saveAuditEntry(saveAuditEntry(saveAuditEntry(auditTrail, "recall"),
                                             "apply"), "decide")
     /\ contributingMemories' =
          IF last'.threw THEN contributingMemories
          ELSE registerContributingMemories(contributingMemories, invoice.id,
                 extractContributingMemories(last'.appliedMemories))
     /\ processedInvoices' =
          IF last'.threw THEN processedInvoices
          ELSE saveProcessedInvoice(processedInvoices, invoice.id,
                                    normalizeVendorName(invoice.vendorId),
                                    invoice.invoiceNumber, invoice.invoiceDate)
     /\ UNCHANGED <<vendorMemories, correctionMemories, resolutionMemories, orders>>

LearnFromFeedback(id, feedback) ==
  LET invoice == Invoice(id)
      contributing == contributingOf(contributingMemories, invoice.id)
      st == learn(feedback, invoice, contributing)
  IN /\ calls' = calls + 1
     /\ vendorMemories' = st.vm
     /\ correctionMemories' = st.cm
     /\ auditTrail' = IF st.threw THEN auditTrail ELSE saveAuditEntry(auditTrail, "learn")
     /\ contributingMemories' =
          IF st.threw THEN contributingMemories
          ELSE deleteContributing(contributingMemories, invoice.id)
     /\ last' = [op |-> "learnFromFeedback", invoiceId |-> invoice.id, feedback |-> feedback,
                 threw |-> st.threw,
                 contributing |-> contributing,
                 createdMemories |-> st.created, updatedMemories |-> st.updated,
                 deactivatedMemories |-> st.deactivated,
                 auditEntries |-> IF st.threw THEN 0 ELSE 1]
     /\ UNCHANGED <<resolutionMemories, processedInvoices, orders>>

\* Every call on every input of the model, MaxCalls calls at most; the purchase
\* orders are set and the repository is written while a call can still follow.
Next ==
  \/ /\ calls < MaxCalls
     /\ \E id \in InvoiceIds : ProcessInvoice(id)
  \/ /\ calls < MaxCalls
     /\ \E id \in InvoiceIds, feedback \in Feedbacks : LearnFromFeedback(id, feedback)
  \/ /\ calls < MaxCalls
     /\ SetPurchaseOrders(PurchaseOrders)
  \/ /\ calls + 1 < MaxCalls
     /\ \E id \in 1..(Len(vendorMemories) + 1) : \E m \in VendorInputs(id) :
          SaveVendorMemory(m)
  \/ /\ calls + 1 < MaxCalls
     /\ \E id \in 1..Len(vendorMemories), updates \in VendorUpdates :
          UpdateVendorMemory(id, updates)
  \/ /\ calls + 1 < MaxCalls
     /\ \E id \in 1..(Len(correctionMemories) + 1) : \E m \in CorrectionInputs(id) :
          SaveCorrectionMemory(m)
  \/ /\ calls + 1 < MaxCalls
     /\ \E id \in 1..Len(correctionMemories), updates \in CorrectionUpdates :
          UpdateCorrectionMemory(id, updates)
  \/ /\ calls + 1 < MaxCalls
     /\ \E m \in ResolutionInputs : SaveResolutionMemory(m)
  \/ /\ calls + 1 < MaxCalls
     /\ \E id \in 1..MaxResolutionMemories, updates \in ResolutionUpdates :
          UpdateResolutionMemory(id, updates)
  \/ /\ calls + 1 < MaxCalls
     /\ \E step \in AuditInputs : SaveAuditEntry(step)
  \/ /\ calls + 1 < MaxCalls
     /\ \E row \in ProcessedInputs : SaveProcessedInvoice(row)

Spec == Init /\ [][Next]_vars

\* The three invoices of one vendor: the service date of INV-1 is corrected, and
\* the invoices are processed, approved or rejected in any order, MaxVendorCalls
\* calls at most.
VendorInvoiceIds == {"INV-1", "INV-2", "INV-3"}
VendorFeedbacks == {Feedback("approve", FALSE, <<>>), Feedback("reject", FALSE, <<>>)}

NextVendor ==
  \/ /\ calls < MaxVendorCalls
     /\ LearnFromFeedback("INV-1", Feedback("correct", TRUE, <<CorrServiceDate>>))
  \/ /\ calls < MaxVendorCalls
     /\ \E id \in VendorInvoiceIds : ProcessInvoice(id)
  \/ /\ calls < MaxVendorCalls
     /\ \E id \in VendorInvoiceIds, feedback \in VendorFeedbacks : LearnFromFeedback(id, feedback)

SpecVendor == Init /\ [][NextVendor]_vars

\* The learning loop of one mapping: the service date of INV-1 is corrected, then
\* INV-2 is processed and approved or rejected, MaxCycles times at most.
CycleFeedbacks == {Feedback("approve", FALSE, <<>>), Feedback("reject", FALSE, <<>>)}

NextCycle ==
  \/ /\ calls = 0
     /\ LearnFromFeedback("INV-1", Feedback("correct", TRUE, <<CorrServiceDate>>))
  \/ /\ calls > 0 /\ calls < 1 + 2 * MaxCycles
     /\ last.op = "learnFromFeedback"
     /\ ProcessInvoice("INV-2")
  \/ /\ last.op = "processInvoice"
     /\ \E feedback \in CycleFeedbacks : LearnFromFeedback("INV-2", feedback)

SpecCycle == Init /\ [][NextCycle]_vars

\* The confidence functions on their own: a confidence is drawn from
\* Confidences, applyReinforcement is applied to it again and again,
\* MaxReinforcements times at most, and mapConfidenceToAction to what it gives.
Confidences ==
  {k * 10000 : k \in 0..100} \cup {699990, 849990, 949990, 950010}

InitConfidence ==
  /\ vendorMemories = <<>>
  /\ correctionMemories = <<>>
  /\ resolutionMemories = <<>>
  /\ processedInvoices = <<>>
  /\ auditTrail = [step \in {"recall", "apply", "decide", "learn"} |-> 0]
  /\ contributingMemories = <<>>
  /\ orders = <<>>
  /\ calls = 0
  /\ \E c \in Confidences : last = [op |-> "confidence", start |-> c, confidence |-> c]

ApplyReinforcement ==
  /\ calls < MaxReinforcements
  /\ last.op # "mapConfidenceToAction"
  /\ calls' = calls + 1
  /\ last' = [op |-> "applyReinforcement", start |-> last.start,
              before |-> last.confidence,
              confidence |-> applyReinforcement(last.confidence)]
  /\ UNCHANGED <<vendorMemories, correctionMemories, resolutionMemories, processedInvoices,
                 auditTrail, contributingMemories, orders>>

MapConfidenceToAction ==
  /\ last.op # "mapConfidenceToAction"
  /\ last' = [op |-> "mapConfidenceToAction", start |-> last.start,
              confidence |-> last.confidence,
              action |-> mapConfidenceToAction(last.confidence)]
  /\ UNCHANGED <<vendorMemories, correctionMemories, resolutionMemories, processedInvoices,
                 auditTrail, contributingMemories, orders, calls>>

NextConfidence == ApplyReinforcement \/ MapConfidenceToAction

SpecConfidence == InitConfidence /\ [][NextConfidence]_vars

\* The decision over stored memories of every standing: the tables start with
\* the mapping of "Leistungsdatum", the mapping of "Bestellnummer" and the
\* correction memory of serviceDate, each absent or as a number of approvals
\* leaves it, with or without purchase orders; then invoices are processed,
\* MaxDecisionCalls at most.
RECURSIVE reinforceTimes(_, _)
\* the confidence after n reinforcements
reinforceTimes(confidence, n) ==
  IF n = 0 THEN confidence ELSE reinforceTimes(applyReinforcement(confidence), n - 1)

\* the row n approvals after its creation
Approved(row, n) ==
  [row EXCEPT !.confidence = reinforceTimes(row.confidence, n), !.applicationCount = n]

\* approvals a stored memory went through: it is flagged, suggested or
\* auto-applied; Absent when the memory was never created
ApprovalCounts == {0, 6, 20}
Absent == -1

DecisionVendorMemories(a, b) ==
  (IF a = Absent THEN <<>>
   ELSE <<Approved(VendorMemory(1, normalizeVendorName(VendorAbC), VendorAbC,
                                "Leistungsdatum", "serviceDate"), a)>>)
  \o (IF b = Absent THEN <<>>
      ELSE <<Approved(VendorMemory(IF a = Absent THEN 1 ELSE 2,
                                   normalizeVendorName(VendorAbC), VendorAbC,
                                   "Bestellnummer", "poNumber"), b)>>)

DecisionCorrectionMemories(c) ==
  IF c = Absent THEN <<>>
  ELSE <<Approved(CorrectionMemory(1, normalizeVendorName(VendorAbC), "serviceDate", <<"*">>,
                                   <<"2", "0", "2", "4", "-", "0", "1", "-", "0", "1">>), c)>>

DecisionInvoiceIds == {"INV-1", "INV-2", "INV-3", "INV-4", "INV-6", "INV-7", "INV-8"}

InitDecision ==
  /\ \E a \in ApprovalCounts \cup {Absent}, b \in ApprovalCounts \cup {Absent} :
       vendorMemories = DecisionVendorMemories(a, b)
  /\ \E c \in ApprovalCounts \cup {Absent} :
       correctionMemories = DecisionCorrectionMemories(c)
  /\ resolutionMemories = <<>>
  /\ processedInvoices = <<>>
  /\ auditTrail = [step \in {"recall", "apply", "decide", "learn"} |-> 0]
  /\ contributingMemories = <<>>
  /\ orders \in {<<>>, PurchaseOrders}
  /\ calls = 0
  /\ last = NoCall

NextDecision ==
  /\ calls < MaxDecisionCalls
  /\ \E id \in DecisionInvoiceIds : ProcessInvoice(id)

SpecDecision == InitDecision /\ [][NextDecision]_vars

\* Two labels of one field: the service date of INV-1 ("Leistungsdatum") is
\* corrected again and again, that of INV-5 ("Lieferdatum") once, and INV-2 or
\* INV-6 is processed after a feedback: MaxRoundTripCalls calls at most. The
\* correction_memories table is empty or holds a service date of the vendor
\* that went through 20 approvals.
InitRoundTrip ==
  /\ vendorMemories = <<>>
  /\ \E c \in {20, Absent} : correctionMemories = DecisionCorrectionMemories(c)
  /\ resolutionMemories = <<>>
  /\ processedInvoices = <<>>
  /\ auditTrail = [step \in {"recall", "apply", "decide", "learn"} |-> 0]
  /\ contributingMemories = <<>>
  /\ orders = <<>>
  /\ calls = 0
  /\ last = NoCall

NextRoundTrip ==
  \/ /\ calls < MaxRoundTripCalls
     /\ LearnFromFeedback("INV-1", Feedback("correct", TRUE, <<CorrServiceDate>>))
  \/ /\ calls < MaxRoundTripCalls
     /\ Len(vendorMemories) = 1
     /\ LearnFromFeedback("INV-5", Feedback("correct", TRUE, <<CorrServiceDate>>))
  \/ /\ calls < MaxRoundTripCalls
     /\ last.op = "learnFromFeedback"
     /\ \E id \in {"INV-2", "INV-6"} : ProcessInvoice(id)

SpecRoundTrip == InitRoundTrip /\ [][NextRoundTrip]_vars

\* One invoice processed twice before its feedback: INV-2 is processed, INV-1
\* is processed and fed back in between, INV-2 is processed again and then fed
\* back: MaxReprocessCalls calls. The stored memories went through the
\* approvals of ApprovalCounts.
ReprocessVendorMemories(a) ==
  IF a = Absent THEN <<>>
  ELSE <<Approved(VendorMemory(1, normalizeVendorName(VendorAbC), VendorAbC,
                               "Leistungsdatum", "serviceDate"), a)>>

ReprocessFeedbacks ==
  {Feedback("approve", FALSE, <<>>), Feedback("reject", FALSE, <<>>),
   Feedback("correct", TRUE, <<CorrServiceDate>>)}

InitReprocess ==
  /\ \E a \in ApprovalCounts \cup {Absent} : vendorMemories = ReprocessVendorMemories(a)
  /\ \E c \in ApprovalCounts \cup {Absent} : correctionMemories = DecisionCorrectionMemories(c)
  /\ resolutionMemories = <<>>
  /\ processedInvoices = <<>>
  /\ auditTrail = [step \in {"recall", "apply", "decide", "learn"} |-> 0]
  /\ contributingMemories = <<>>
  /\ orders = <<>>
  /\ calls = 0
  /\ last = NoCall

NextReprocess ==
  \/ /\ calls = 0
     /\ ProcessInvoice("INV-2")
  \/ /\ calls > 0 /\ calls < MaxReprocessCalls - 2
     /\ ProcessInvoice("INV-1")
  \/ /\ calls > 0 /\ calls < MaxReprocessCalls - 2
     /\ \E feedback \in ReprocessFeedbacks : LearnFromFeedback("INV-1", feedback)
  \/ /\ calls = MaxReprocessCalls - 2
     /\ ProcessInvoice("INV-2")
  \/ /\ calls = MaxReprocessCalls - 1
     /\ \E feedback \in ReprocessFeedbacks : LearnFromFeedback("INV-2", feedback)

SpecReprocess == InitReprocess /\ [][NextReprocess]_vars

\* The duplicate index on its own: the invoices of DuplicateInvoiceIds are
\* processed in any order, any of them again, MaxDuplicateCalls calls at most.
\* INV-1, INV-2 and INV-9 lie within a week of one another, INV-3 within a
\* week of INV-2 and INV-9 only, INV-4 is of another vendor.
DuplicateInvoiceIds == {"INV-1", "INV-2", "INV-3", "INV-4", "INV-9"}

NextDuplicates ==
  /\ calls < MaxDuplicateCalls
  /\ \E id \in DuplicateInvoiceIds : ProcessInvoice(id)

SpecDuplicates == Init /\ [][NextDuplicates]_vars

\* Global correction memories: the correction_memories table holds a memory
\* of the vendor and memories of no vendor (vendor_id NULL), each after the
\* approvals of GlobalApprovalCounts or never saved; invoices are processed
\* and approved or rejected, MaxGlobalCalls calls at most.
GlobalApprovalCounts == {0, 20, 30}

\* the rows in the order of their insertion, the id of a row its position
numbered(rows) == [i \in 1..Len(rows) |-> [rows[i] EXCEPT !.id = i]]

GlobalCorrectionMemories(a, g, h) ==
  numbered(
    (IF a = Absent THEN <<>>
     ELSE <<Approved(CorrectionMemory(0, normalizeVendorName(VendorAbC), "serviceDate",
                                      <<"*">>, <<"2", "0", "2", "4", "-", "0", "1", "-", "0", "1">>), a)>>)
    \o (IF g = Absent THEN <<>>
        ELSE <<Approved(CorrectionMemory(0, NullVendor, "serviceDate",
                                         <<"*">>, <<"2", "0", "2", "4", "-", "0", "1", "-", "1", "5">>), g)>>)
    \o (IF h = Absent THEN <<>>
        ELSE <<Approved(CorrectionMemory(0, NullVendor, "poNumber",
                                         <<"*">>, <<"P", "O", "-", "1">>), h)>>))

GlobalInvoiceIds == {"INV-1", "INV-3", "INV-4"}
GlobalFeedbacks == {Feedback("approve", FALSE, <<>>), Feedback("reject", FALSE, <<>>)}

InitGlobal ==
  /\ vendorMemories = <<>>
  /\ \E a \in GlobalApprovalCounts \cup {Absent}, g \in GlobalApprovalCounts \cup {Absent},
        h \in {0, Absent} :
       correctionMemories = GlobalCorrectionMemories(a, g, h)
  /\ resolutionMemories = <<>>
  /\ processedInvoices = <<>>
  /\ auditTrail = [step \in {"recall", "apply", "decide", "learn"} |-> 0]
  /\ contributingMemories = <<>>
  /\ orders = <<>>
  /\ calls = 0
  /\ last = NoCall

NextGlobal ==
  \/ /\ calls < MaxGlobalCalls
     /\ \E id \in GlobalInvoiceIds : ProcessInvoice(id)
  \/ /\ calls < MaxGlobalCalls
     /\ \E id \in GlobalInvoiceIds, feedback \in GlobalFeedbacks : LearnFromFeedback(id, feedback)

SpecGlobal == InitGlobal /\ [][NextGlobal]_vars

\* Purchase-order matching: the orders are a list of at most MaxOrders orders
\* of OrderPool; the match of an invoice is looked up, and invoices are
\* processed, MaxPOCalls at most.  On INV-4, dated day 10 with the line item
\* S1 x 2, PO-12 scores 0.3 + 0.2 * (1 - 9/30) + 0.3 * 1/5, PO-13 and PO-15
\* score 0.3 + 0.2 * (1 - 15/30), PO-14 scores 0.3 + 0.3 * 1/3 and PO-16 scores
\* 0.3 + 0.3 * 1/1 + 0.1.
OrderPool ==
  {PurchaseOrder(<<"P", "O", "-", "7">>, <<"x", "Y", " ">>, 10, <<[sku |-> "S1", qty |-> 2]>>),
   PurchaseOrder(<<"P", "O", "-", "8">>, <<"a", "b", " ", "c">>, 30, <<>>),
   PurchaseOrder(<<"P", "O", "-", "9">>, <<"A", "b", " ", "C">>, 20, <<>>),
   PurchaseOrder(<<"P", "O", "-", "1", "0">>, <<"X", "Y">>, 10, <<[sku |-> "S1", qty |-> 2]>>),
   PurchaseOrder(<<"P", "O", "-", "1", "1">>, <<"x", "y">>, 10,
                 <<[sku |-> "S1", qty |-> 2], [sku |-> "S2", qty |-> 1],
                   [sku |-> "S3", qty |-> 1]>>),
   PurchaseOrder(<<"P", "O", "-", "1", "2">>, <<"x", "y">>, 38,
                 <<[sku |-> "S1", qty |-> 9], [sku |-> "S2", qty |-> 1],
                   [sku |-> "S3", qty |-> 1], [sku |-> "S4", qty |-> 1],
                   [sku |-> "S5", qty |-> 1]>>),
   PurchaseOrder(<<"P", "O", "-", "1", "3">>, <<"x", "y">>, 50, <<>>),
   PurchaseOrder(<<"P", "O", "-", "1", "4">>, <<"x", "y">>, 200,
                 <<[sku |-> "S1", qty |-> 9], [sku |-> "S2", qty |-> 1],
                   [sku |-> "S3", qty |-> 1]>>),
   PurchaseOrder(<<"P", "O", "-", "1", "5">>, <<"X", "Y">>, 50, <<>>),
   PurchaseOrder(<<"P", "O", "-", "1", "6">>, <<"x", "y">>, 200, <<[sku |-> "S1", qty |-> 2]>>)}

OrderLists ==
  {list \in UNION {[1..n -> OrderPool] : n \in 0..MaxOrders} :
     \A i \in 1..Len(list), j \in 1..Len(list) : list[i] = list[j] => i = j}

POInvoiceIds == {"INV-1", "INV-2", "INV-4", "INV-8", "INV-10", "INV-12"}

InitPO ==
  /\ vendorMemories = <<>>
  /\ correctionMemories = <<>>
  /\ resolutionMemories = <<>>
  /\ processedInvoices = <<>>
  /\ auditTrail = [step \in {"recall", "apply", "decide", "learn"} |-> 0]
  /\ contributingMemories = <<>>
  /\ orders \in OrderLists
  /\ calls = 0
  /\ last = NoCall

FindMatchingPO(id) ==
  /\ last' = [op |-> "findMatchingPO", invoiceId |-> id, result |-> findMatchingPO(Invoice(id))]
  /\ UNCHANGED <<vendorMemories, correctionMemories, resolutionMemories, processedInvoices,
                 auditTrail, contributingMemories, orders, calls>>

NextPO ==
  \/ \E id \in POInvoiceIds : FindMatchingPO(id)
  \/ /\ calls < MaxPOCalls
     /\ \E id \in POInvoiceIds : ProcessInvoice(id)

SpecPO == InitPO /\ [][NextPO]_vars

\* One pass at a time: a processInvoice call is made only when the last call
\* was not one, and the call after it is the learnFromFeedback of its
\* invoice; MaxAlternateCalls calls at most. The mapping of "Leistungsdatum"
\* to serviceDate went through the approvals of ApprovalCounts; INV-11 carries
\* the label on its delivery date, which is corrected to one of two dates.
AlternateInvoiceIds == {"INV-1", "INV-11"}
AlternateFeedbacks ==
  {Feedback("approve", FALSE, <<>>), Feedback("reject", FALSE, <<>>),
   Feedback("correct", TRUE, <<CorrDeliveryDate>>),
   Feedback("correct", TRUE, <<CorrDeliveryDateLater>>)}

InitAlternate ==
  /\ \E a \in ApprovalCounts \cup {Absent} : vendorMemories = ReprocessVendorMemories(a)
  /\ correctionMemories = <<>>
  /\ resolutionMemories = <<>>
  /\ processedInvoices = <<>>
  /\ auditTrail = [step \in {"recall", "apply", "decide", "learn"} |-> 0]
  /\ contributingMemories = <<>>
  /\ orders = <<>>
  /\ calls = 0
  /\ last = NoCall

NextAlternate ==
  \/ /\ calls < MaxAlternateCalls
     /\ last.op # "processInvoice"
     /\ \E id \in AlternateInvoiceIds : ProcessInvoice(id)
  \/ /\ calls < MaxAlternateCalls
     /\ \E id \in AlternateInvoiceIds, feedback \in AlternateFeedbacks :
          /\ last.op = "processInvoice" => id = last.invoiceId
          /\ LearnFromFeedback(id, feedback)

SpecAlternate == InitAlternate /\ [][NextAlternate]_vars

\* Several passes pending at once: the invoices of the vendor are processed
\* before any feedback, MaxPendingPasses passes at most, then approved or
\* rejected in any order; an invoice is processed again once a memory is
\* inactive. MaxPendingCalls calls at most.
PendingInvoiceIds == {"INV-1", "INV-2", "INV-3", "INV-7"}
PendingFeedbacks == {Feedback("approve", FALSE, <<>>), Feedback("reject", FALSE, <<>>)}

InitPending ==
  /\ \E a \in {0, 20, Absent} : vendorMemories = ReprocessVendorMemories(a)
  /\ \E c \in {0, Absent} : correctionMemories = DecisionCorrectionMemories(c)
  /\ resolutionMemories = <<>>
  /\ processedInvoices = <<>>
  /\ auditTrail = [step \in {"recall", "apply", "decide", "learn"} |-> 0]
  /\ contributingMemories = <<>>
  /\ orders = <<>>
  /\ calls = 0
  /\ last = NoCall

NextPending ==
  \/ /\ calls < MaxPendingPasses
     /\ auditTrail["learn"] = 0
     /\ \E id \in PendingInvoiceIds : ProcessInvoice(id)
  \/ /\ calls < MaxPendingCalls
     /\ \E i \in 1..Len(vendorMemories) : ~vendorMemories[i].isActive
     /\ \E id \in PendingInvoiceIds : ProcessInvoice(id)
  \/ /\ calls < MaxPendingCalls
     /\ \E id \in PendingInvoiceIds, feedback \in PendingFeedbacks :
          LearnFromFeedback(id, feedback)

SpecPending == InitPending /\ [][NextPending]_vars

(***************************************************************************)
(* Properties.                                                             *)
(***************************************************************************)
\* the step is a processInvoice call for id that returned
Processed(id) ==
  calls' = calls + 1 /\ last'.op = "processInvoice" /\ last'.invoiceId = id /\ ~last'.threw

\* the step is a learnFromFeedback call for id
Learned(id) ==
  calls' = calls + 1 /\ last'.op = "learnFromFeedback" /\ last'.invoiceId = id

\* the stored row a contributing memory names
RowOf(vm, cm, mem) == IF mem.memoryType = "vendor" THEN vm[mem.memoryId] ELSE cm[mem.memoryId]

\* the reasoning names a duplicate
MentionsDuplicate(reasoning) ==
  \E i \in 1..Len(reasoning) : reasoning[i] = "Potential duplicate"

\* an invoice other than id with the vendor key, number and a date at most 7
\* days from that of id is in the duplicate index
EarlierMatch(id) ==
  \E other \in DOMAIN processedInvoices \ {id} :
    /\ processedInvoices[other].vendorId = normalizeVendorName(Invoice(id).vendorId)
    /\ processedInvoices[other].invoiceNumber = Invoice(id).invoiceNumber
    /\ Abs(processedInvoices[other].invoiceDate - Invoice(id).invoiceDate) <= 7 * TicksPerDay

\* C1: after any sequence of calls every stored vendor memory and correction
\* memory has a confidence within [0, maxConfidence] = [0, 0.95].
C1_ConfidenceWithinBounds ==
  /\ \A i \in 1..Len(vendorMemories) :
       vendorMemories[i].confidence >= 0 /\ vendorMemories[i].confidence <= 950000
  /\ \A i \in 1..Len(correctionMemories) :
       correctionMemories[i].confidence >= 0 /\ correctionMemories[i].confidence <= 950000

\* an approval reinforced a correction memory stored at 0.95, and the cap
\* holds it there
C1_Witness ==
  /\ last.op = "learnFromFeedback" /\ last.feedback.action = "approve"
  /\ \E i \in 1..Len(correctionMemories) :
       /\ correctionMemories[i].confidence = 950000
       /\ correctionMemories[i].applicationCount = 1
       /\ MemoryRef("correction", i) \in Range(last.updatedMemories)

\* C2: when another invoice id with the same normalized vendor key, the same
\* invoice number and a date at most 7 days away is already processed,
\* processInvoice returns requiresHumanReview = true and a reasoning that
\* contains "duplicate", whatever the memories and confidences are.
C2_DuplicateForcesReview ==
  [][\A id \in InvoiceIds :
       (Processed(id) /\ EarlierMatch(id))
         => (last'.requiresHumanReview /\ MentionsDuplicate(last'.reasoning))]_vars

\* INV-2 was processed after INV-1, 6.5 days earlier under another spelling of
\* the vendor, and is reported as a duplicate
C2_Witness ==
  /\ last.op = "processInvoice" /\ last.invoiceId = "INV-2"
  /\ "INV-1" \in DOMAIN processedInvoices
  /\ last.requiresHumanReview /\ MentionsDuplicate(last.reasoning)

\* C3: processInvoice never mutates a memory: every vendor, correction and
\* resolution memory is the same after the call as before it; only the audit
\* log, the duplicate index and the registration of that invoice change.
C3_ProcessKeepsMemories ==
  [][\A id \in InvoiceIds :
       Processed(id) =>
         /\ vendorMemories' = vendorMemories
         /\ correctionMemories' = correctionMemories
         /\ resolutionMemories' = resolutionMemories
         /\ orders' = orders
         /\ \A x \in DOMAIN contributingMemories \ {id} :
              x \in DOMAIN contributingMemories'
              /\ contributingMemories'[x] = contributingMemories[x]
         /\ \A x \in DOMAIN processedInvoices \ {id} :
              x \in DOMAIN processedInvoices'
              /\ processedInvoices'[x] = processedInvoices[x]]_vars

\* a duplicate was processed and memories were applied to it
C3_Witness ==
  /\ last.op = "processInvoice"
  /\ last.duplicateIds # {}
  /\ last.appliedMemories # <<>>
  /\ \E i \in 1..Len(vendorMemories) : vendorMemories[i].applicationCount > 0

\* C4: the registration of an invoice id is consumed by learnFromFeedback:
\* after a learn call for X returns no registration exists for X, only
\* processing X registers again, and an approve or reject for X without a
\* registration changes no memory.
C4_RegistrationConsumed ==
  [][\A id \in InvoiceIds :
       /\ (Learned(id) /\ ~last'.threw) => id \notin DOMAIN contributingMemories'
       /\ (id \notin DOMAIN contributingMemories /\ ~Processed(id))
            => id \notin DOMAIN contributingMemories'
       /\ (/\ Learned(id)
           /\ last'.feedback.action \in {"approve", "reject"}
           /\ id \notin DOMAIN contributingMemories)
            => UNCHANGED memories]_vars

\* INV-2 was processed and approved, which reinforced the memory once; the
\* reject that follows finds no registration and leaves the memory as it was
C4_Witness ==
  /\ last.op = "learnFromFeedback" /\ last.invoiceId = "INV-2"
  /\ last.feedback.action = "reject"
  /\ last.contributing = <<>>
  /\ "INV-2" \in DOMAIN processedInvoices
  /\ Len(vendorMemories) = 1
  /\ vendorMemories[1].applicationCount = 1
  /\ vendorMemories[1].confidence = 620000
  /\ vendorMemories[1].consecutiveRejections = 0

\* C5: on approve every memory registered for the invoice gets confidence
\* min(c + 0.05 * (1 - c), 0.95), consecutive rejections 0 and one more
\* application; a memory at 0.6 ends at 0.62.
C5_ApproveReinforces ==
  [][\A id \in InvoiceIds :
       (Learned(id) /\ last'.feedback.action = "approve") =>
         \A k \in 1..Len(contributingOf(contributingMemories, id)) :
           LET mem == contributingMemories[id][k]
               old == RowOf(vendorMemories, correctionMemories, mem)
               new == RowOf(vendorMemories', correctionMemories', mem)
           IN /\ new.confidence
                   = Min(old.confidence + (5 * (Scale - old.confidence)) \div 100, 950000)
              /\ (old.confidence = 600000 => new.confidence = 620000)
              /\ new.consecutiveRejections = 0
              /\ new.applicationCount = old.applicationCount + 1]_vars

\* an approve reinforced a contributing memory from 0.6 to 0.62
C5_Witness ==
  /\ last.op = "learnFromFeedback" /\ last.feedback.action = "approve"
  /\ last.contributing # <<>>
  /\ \E k \in 1..Len(last.contributing) :
       LET row == RowOf(vendorMemories, correctionMemories, last.contributing[k])
       IN row.confidence = 620000 /\ row.applicationCount = 1
          /\ row.consecutiveRejections = 0

\* C6: on reject every contributing memory gets confidence 0.7 * c and one more
\* consecutive rejection (0.6 becomes 0.42 with count 1); when the count
\* reaches 3 the active flag is cleared and the memory is listed in
\* deactivatedMemories and not in updatedMemories.
C6_RejectPenalizes ==
  [][\A id \in InvoiceIds :
       (Learned(id) /\ last'.feedback.action = "reject") =>
         \A k \in 1..Len(contributingOf(contributingMemories, id)) :
           LET mem == contributingMemories[id][k]
               ref == [memoryType |-> mem.memoryType, memoryId |-> mem.memoryId]
               old == RowOf(vendorMemories, correctionMemories, mem)
               new == RowOf(vendorMemories', correctionMemories', mem)
           IN /\ new.confidence = (7 * old.confidence) \div 10
              /\ new.consecutiveRejections = old.consecutiveRejections + 1
              /\ (old.confidence = 600000 /\ old.consecutiveRejections = 0)
                   => (new.confidence = 420000 /\ new.consecutiveRejections = 1)
              /\ new.consecutiveRejections >= 3
                   => /\ ~new.isActive
                      /\ ref \in Range(last'.deactivatedMemories)
                      /\ ref \notin Range(last'.updatedMemories)
              /\ (new.consecutiveRejections < 3 /\ old.isActive)
                   => /\ new.isActive
                      /\ ref \in Range(last'.updatedMemories)
                      /\ ref \notin Range(last'.deactivatedMemories)]_vars

\* the third reject in a row has deactivated the memory
C6_Witness ==
  /\ last.op = "learnFromFeedback" /\ last.feedback.action = "reject"
  /\ last.deactivatedMemories = <<[memoryType |-> "vendor", memoryId |-> 1]>>
  /\ last.updatedMemories = <<>>
  /\ vendorMemories[1].consecutiveRejections = 3
  /\ ~vendorMemories[1].isActive

\* C7: a memory created by a human correction (0.6) that contributes to 20
\* consecutive process-then-approve cycles has confidence >= 0.85 after the
\* 20th approval.
C7_TwentyApprovalsAutoApply ==
  (/\ calls = 41
   /\ Len(vendorMemories) = 1
   /\ vendorMemories[1].applicationCount = 20)
    => vendorMemories[1].confidence >= 850000

\* the state after the correction and 20 process-then-approve cycles
C7_Witness ==
  /\ calls = 41
  /\ last.op = "learnFromFeedback" /\ last.feedback.action = "approve"
  /\ Len(vendorMemories) = 1
  /\ vendorMemories[1].applicationCount = 20
  /\ vendorMemories[1].confidence >= 850000

\* C8: after a 0.6 memory was reinforced 20 times, the first process-then-reject
\* cycle leaves its confidence above 0.50 and the second below 0.50; the next
\* processInvoice for the vendor does not recall it, and the recall audit
\* details do not name vendor memories.
C8_TwoRejectionsSilence ==
  (Len(vendorMemories) = 1 /\ vendorMemories[1].applicationCount = 20) =>
    /\ (calls = 43 /\ vendorMemories[1].consecutiveRejections = 1)
         => vendorMemories[1].confidence > 500000
    /\ (calls = 45 /\ vendorMemories[1].consecutiveRejections = 2)
         => vendorMemories[1].confidence < 500000
    /\ (calls = 46 /\ vendorMemories[1].consecutiveRejections = 2
          /\ last.op = "processInvoice")
         => /\ last.recalled.vendorMemories = <<>>
            /\ ~last.recallDetails.vendorPart
            /\ last.appliedMemories = <<>>

\* the processInvoice call after 20 approvals and two rejections
C8_Witness ==
  /\ calls = 46 /\ last.op = "processInvoice"
  /\ Len(vendorMemories) = 1
  /\ vendorMemories[1].applicationCount = 20
  /\ vendorMemories[1].consecutiveRejections = 2
  /\ vendorMemories[1].isActive
  /\ vendorMemories[1].confidence < 500000
  /\ ~last.recallDetails.vendorPart

\* s is in non-increasing order of confidence
SortedByConfidence(s) ==
  \A i \in 1..(Len(s) - 1) : s[i].confidence >= s[i + 1].confidence

\* C9: every vendor memory and correction memory returned by recall is active,
\* belongs to the invoice's normalized vendor key (or is a global correction
\* memory) and has confidence >= 0.50, and each returned list is sorted by
\* non-increasing confidence.
C9_RecallFiltersAndSorts ==
  last.op = "processInvoice" =>
    LET key == normalizeVendorName(Invoice(last.invoiceId).vendorId)
        vms == last.recalled.vendorMemories
        cms == last.recalled.correctionMemories
    IN /\ \A i \in 1..Len(vms) :
            vms[i].isActive /\ vms[i].vendorId = key /\ vms[i].confidence >= 500000
       /\ \A i \in 1..Len(cms) :
            /\ cms[i].isActive
            /\ cms[i].vendorId \in {key, NullVendor}
            /\ cms[i].confidence >= 500000
       /\ SortedByConfidence(vms)
       /\ SortedByConfidence(cms)

\* INV-1 was processed while the table held an inactive memory of its vendor
\* at 0.6, which recall left out, and two correction memories were recalled in
\* the order of their confidences, against the order of their fields on the
\* invoice: the memory of no vendor at 0.95 before that of the vendor
C9_Witness ==
  /\ last.op = "processInvoice" /\ last.invoiceId = "INV-1"
  /\ \E i \in 1..Len(vendorMemories) :
       /\ ~vendorMemories[i].isActive
       /\ vendorMemories[i].vendorId = normalizeVendorName(Invoice("INV-1").vendorId)
       /\ vendorMemories[i].confidence >= 500000
  /\ last.recalled.vendorMemories = <<>>
  /\ Len(last.recalled.correctionMemories) = 2
  /\ last.recalled.correctionMemories[1].vendorId = NullVendor
  /\ last.recalled.correctionMemories[1].fieldName = "poNumber"
  /\ last.recalled.correctionMemories[1].confidence
       > last.recalled.correctionMemories[2].confidence
  /\ last.recalled.correctionMemories[2].vendorId = normalizeVendorName(Invoice("INV-1").vendorId)
  /\ last.recalled.correctionMemories[2].fieldName = "serviceDate"

\* every invoice of the model
AllInvoiceIds == InvoiceIds \cup {"INV-5", "INV-6"}

\* the vendor memories the correct feedback of the last call created
CreatedVendorIds ==
  IF last.op = "learnFromFeedback" /\ last.feedback.action = "correct" /\ ~last.threw
  THEN {ref.memoryId : ref \in {x \in Range(last.createdMemories) : x.memoryType = "vendor"}}
  ELSE {}

\* the step processes invoice id, another invoice of the vendor of memory k,
\* right after the feedback that created k
RoundTripStep(id, k) ==
  /\ Processed(id)
  /\ id # last.invoiceId
  /\ normalizeVendorName(Invoice(id).vendorId) = vendorMemories[k].vendorId

\* the target field of the invoice is empty
FieldEmpty(invoice, name) == HasField(invoice, name) => IsNullish(FieldOf(invoice, name).value)

\* value is in the normalized record or in a proposed correction for the field
Shown(result, name, value) ==
  \/ Get(result.normalizedInvoice, name) = value
  \/ \E i \in 1..Len(result.proposedCorrections) :
       /\ result.proposedCorrections[i].fieldName = name
       /\ result.proposedCorrections[i].suggestedValue = value

\* the value the raw text prints behind the label, in whatever case its
\* letters are: that of the first line that carries the label, <<>> when none
\* does
RECURSIVE PrintedBehind(_, _)
PrintedBehind(lines, label) ==
  IF lines = <<>> THEN <<>>
  ELSE IF toLowerCase(Spell(Head(lines).label)) = toLowerCase(Spell(label))
       THEN Head(lines).value
       ELSE PrintedBehind(Tail(lines), label)

\* a date printed DD.MM.YYYY, written YYYY-MM-DD
AsYearMonthDay(value) ==
  IF Len(value) = 10 /\ value[3] = "." /\ value[6] = "."
  THEN SubSeq(value, 7, 10) \o <<"-">> \o SubSeq(value, 4, 5) \o <<"-">> \o SubSeq(value, 1, 2)
  ELSE value

\* the value the invoice's raw text holds for memory k: the one printed behind
\* its label, <<>> when the text does not hold the label
LabelledValue(id, k) ==
  AsYearMonthDay(PrintedBehind(Invoice(id).rawText.lines, vendorMemories[k].originalFieldName))

\* the place of vendor memory k in the applied memories of the pass, 0 when it
\* is not among them
PlaceOf(result, k) ==
  IF \E i \in 1..Len(result.appliedMemories) :
       /\ result.appliedMemories[i].memoryType = "vendor"
       /\ result.appliedMemories[i].memoryId = k
  THEN CHOOSE i \in 1..Len(result.appliedMemories) :
         /\ result.appliedMemories[i].memoryType = "vendor"
         /\ result.appliedMemories[i].memoryId = k
  ELSE 0

\* a vendor memory handled before k in the vendor loop of this pass
\* auto-applied a value to the field
AutoAppliedBefore(result, k, name) ==
  \E i \in 1..(PlaceOf(result, k) - 1) :
    /\ result.appliedMemories[i].memoryType = "vendor"
    /\ result.appliedMemories[i].fieldName = name
    /\ result.appliedMemories[i].action = "auto_applied"
    /\ result.appliedMemories[i].extractedValue # Undefined

Corrected(id) ==
  /\ Learned(id)
  /\ last'.feedback.action = "correct"
  /\ last'.feedback.hasCorrections

\* the value the contributing memory suggested, before the call, equals the
\* corrected value in string form
Confirms(mem, corr) ==
  LET memoryValue == getMemorySuggestedValue(LearnState(vendorMemories, correctionMemories), mem)
  IN memoryValue # Null /\ StringOf(memoryValue) = StringOf(corr.correctedValue)

\* the memories the step created for the field
CreatedFor(fieldName) ==
  {r \in Range(last'.createdMemories) :
     IF r.memoryType = "vendor"
     THEN vendorMemories'[r.memoryId].normalizedFieldName = fieldName
     ELSE correctionMemories'[r.memoryId].fieldName = fieldName}

\* the step left the memory's row as one reinforcement leaves it
ReinforcedOnce(mem) ==
  RowOf(vendorMemories', correctionMemories', mem)
    = updatedRow(RowOf(vendorMemories, correctionMemories, mem), "reinforce")

\* C11 as stated: on a correct feedback, a contributing memory of the corrected
\* field whose suggested value equals the corrected value in string form is
\* reinforced, and no memory is created for the field.
C11_ConfirmationAsStated ==
  [][\A id \in InvoiceIds :
       Corrected(id) =>
         \A i \in 1..Len(last'.feedback.corrections), k \in 1..Len(last'.contributing) :
           LET corr == last'.feedback.corrections[i]
               mem == last'.contributing[k]
           IN (mem.fieldName = corr.fieldName /\ Confirms(mem, corr))
                => ReinforcedOnce(mem) /\ CreatedFor(corr.fieldName) = {}]_vars

\* the correction is the only one of the list for its field
CorrectedOnce(corrections, i) ==
  \A j \in 1..Len(corrections) : corrections[j].fieldName = corrections[i].fieldName => j = i

\* C11, amended: on a correct feedback, for a field corrected once in the
\* list: when the first contributing memory registered for the field
\* suggested a value that equals the corrected value in string form, that
\* memory is reinforced, no vendor or correction memory is created for the
\* field, and every other contributing memory registered for the field is
\* left as it was.
C11_Confirmation ==
  [][\A id \in InvoiceIds :
       Corrected(id) =>
         \A i \in 1..Len(last'.feedback.corrections) :
           LET corr == last'.feedback.corrections[i]
               k == findContributing(last'.contributing, corr.fieldName)
           IN (/\ CorrectedOnce(last'.feedback.corrections, i)
               /\ k # 0
               /\ Confirms(last'.contributing[k], corr))
                => /\ ReinforcedOnce(last'.contributing[k])
                   /\ CreatedFor(corr.fieldName) = {}
                   /\ \A j \in 1..Len(last'.contributing) :
                        (/\ last'.contributing[j].fieldName = corr.fieldName
                         /\ MemoryRef(last'.contributing[j].memoryType,
                                      last'.contributing[j].memoryId)
                              # MemoryRef(last'.contributing[k].memoryType,
                                          last'.contributing[k].memoryId))
                          => RowOf(vendorMemories', correctionMemories', last'.contributing[j])
                               = RowOf(vendorMemories, correctionMemories,
                                       last'.contributing[j])]_vars

\* the PO number of INV-1 was corrected twice to the same value, both
\* correction memories were applied to INV-1 and the same correction came
\* again: the first is reinforced, the second is as it was, none is added
C11_Witness ==
  /\ last.op = "learnFromFeedback" /\ last.invoiceId = "INV-1"
  /\ last.feedback = Feedback("correct", TRUE, <<CorrPO1>>)
  /\ Len(last.contributing) = 2
  /\ \A k \in 1..2 :
       /\ last.contributing[k].fieldName = "poNumber"
       /\ last.contributing[k].memoryType = "correction"
       /\ last.contributing[k].extractedValue = Str(<<"P", "O", "-", "1">>)
  /\ last.contributing[1].memoryId # last.contributing[2].memoryId
  /\ last.createdMemories = <<>>
  /\ Len(correctionMemories) = 2
  /\ correctionMemories[last.contributing[1].memoryId].confidence
       = applyReinforcement(initialHumanCorrectionConfidence)
  /\ correctionMemories[last.contributing[1].memoryId].applicationCount = 1
  /\ correctionMemories[last.contributing[2].memoryId].confidence
       = initialHumanCorrectionConfidence
  /\ correctionMemories[last.contributing[2].memoryId].applicationCount = 0

\* the invoice field of the correction carries a label other than its name
IsMappingField(invoice, corr) ==
  /\ HasField(invoice, corr.fieldName)
  /\ FieldOf(invoice, corr.fieldName).originalLabel # NoLabel
  /\ FieldOf(invoice, corr.fieldName).originalLabel # corr.fieldName

\* the stored vendor memory is the active mapping createMemory looks for
IsMappingOf(row, invoice, corr) ==
  /\ IsMappingField(invoice, corr)
  /\ row.isActive
  /\ row.vendorId = normalizeVendorName(invoice.vendorId)
  /\ row.originalFieldName = FieldOf(invoice, corr.fieldName).originalLabel
  /\ row.normalizedFieldName = corr.fieldName

\* the step reinforced the existing mapping in place of creating one
MappingReinforced(invoice, corr) ==
  \E j \in 1..Len(vendorMemories) :
    /\ IsMappingOf(vendorMemories[j], invoice, corr)
    /\ MemoryRef("vendor", j) \in Range(last'.updatedMemories)

\* creation ran for the correction: a memory of the field was created, or the
\* existing mapping was reinforced
CreationPerformed(invoice, corr) ==
  CreatedFor(corr.fieldName) # {} \/ MappingReinforced(invoice, corr)

\* C12: on a correct feedback whose corrected value differs from the value
\* suggested by the contributing memory of the field, the contradiction halves
\* the memory's confidence and leaves its active flag and consecutive
\* rejections unchanged, and memory creation is then performed for the field:
\* the call returns, and a memory of the field was created or the field's
\* mapping reinforced.  The stored confidence after the call is half the
\* confidence before it; where creation reinforces the contradicted memory
\* itself, as the active mapping of the field, it is the reinforcement of that
\* half, with the consecutive rejections at 0.
C12_Contradiction ==
  [][\A id \in AlternateInvoiceIds :
       Corrected(id) =>
         \A i \in 1..Len(last'.feedback.corrections) :
           LET corr == last'.feedback.corrections[i]
               k == findContributing(last'.contributing, corr.fieldName)
           IN (k # 0 /\ ~Confirms(last'.contributing[k], corr))
                => LET row == RowOf(vendorMemories, correctionMemories, last'.contributing[k])
                       after == RowOf(vendorMemories', correctionMemories',
                                      last'.contributing[k])
                   IN /\ after.isActive = row.isActive
                      /\ IF last'.contributing[k].memoryType = "vendor"
                            /\ IsMappingOf(row, Invoice(id), corr)
                         THEN /\ after.confidence = applyReinforcement(row.confidence \div 2)
                              /\ after.consecutiveRejections = 0
                         ELSE /\ after.confidence = row.confidence \div 2
                              /\ after.consecutiveRejections = row.consecutiveRejections
                      /\ ~last'.threw
                      /\ CreationPerformed(Invoice(id), corr)]_vars

\* the delivery date learned from INV-1 was suggested for INV-11, whose
\* delivery date carries the label "Leistungsdatum", and another date was
\* given: the correction memory is halved, and the creation of the mapping
\* for the label, which the table maps to serviceDate already, throws
C12_CreationThrows ==
  /\ last.op = "learnFromFeedback" /\ last.invoiceId = "INV-11"
  /\ last.feedback = Feedback("correct", TRUE, <<CorrDeliveryDateLater>>)
  /\ last.threw
  /\ Len(last.contributing) >= 1
  /\ \E k \in 1..Len(last.contributing) :
       /\ last.contributing[k].fieldName = "deliveryDate"
       /\ last.contributing[k].memoryType = "correction"
       /\ last.contributing[k].extractedValue
            = Str(<<"2", "0", "2", "4", "-", "0", "1", "-", "2", "0">>)
       /\ correctionMemories[last.contributing[k].memoryId].confidence
            = applyContradiction(initialHumanCorrectionConfidence)
  /\ last.createdMemories = <<>>
  /\ Len(vendorMemories) = 1
  /\ vendorMemories[1].originalFieldName = "Leistungsdatum"
  /\ vendorMemories[1].normalizedFieldName = "serviceDate"

\* the correction reaches createMemory: no contributing memory of the field, or
\* the first one suggested another value
ReachesCreation(corr) ==
  LET k == findContributing(last'.contributing, corr.fieldName)
  IN k = 0 \/ ~Confirms(last'.contributing[k], corr)

\* the stored vendor memories, active or not, of the vendor key with the field's
\* (label, field name) pair
PairMemories(invoice, corr) ==
  {j \in 1..Len(vendorMemories) :
     /\ vendorMemories[j].vendorId = normalizeVendorName(invoice.vendorId)
     /\ vendorMemories[j].originalFieldName = FieldOf(invoice, corr.fieldName).originalLabel
     /\ vendorMemories[j].normalizedFieldName = corr.fieldName}

\* the step created exactly one vendor memory for the field, as a new mapping
\* starts: active, initial confidence, no application, no rejection
OneMappingCreated(fieldName) ==
  /\ Cardinality(CreatedFor(fieldName)) = 1
  /\ \A r \in CreatedFor(fieldName) :
       /\ r.memoryType = "vendor"
       /\ r.memoryId \notin 1..Len(vendorMemories)
       /\ vendorMemories'[r.memoryId].isActive
       /\ vendorMemories'[r.memoryId].confidence = 600000
       /\ vendorMemories'[r.memoryId].applicationCount = 0
       /\ vendorMemories'[r.memoryId].consecutiveRejections = 0

\* C13: on a correct feedback that reaches creation for a field whose invoice
\* field carries a label other than the field name, a vendor memory of the
\* vendor key with that (label, field name) pair is reinforced and nothing is
\* created; when there is none, exactly one active VendorMemory is created with
\* confidence 0.6, application count 0 and consecutive rejections 0.
C13_MappingCreation ==
  [][\A id \in VendorInvoiceIds :
       Corrected(id) =>
         \A i \in 1..Len(last'.feedback.corrections) :
           LET corr == last'.feedback.corrections[i]
           IN (ReachesCreation(corr) /\ IsMappingField(Invoice(id), corr))
                => IF PairMemories(Invoice(id), corr) # {}
                   THEN /\ CreatedFor(corr.fieldName) = {}
                        /\ \A j \in PairMemories(Invoice(id), corr) :
                             /\ MemoryRef("vendor", j) \in Range(last'.updatedMemories)
                             /\ vendorMemories'[j].applicationCount
                                  = vendorMemories[j].applicationCount + 1
                             /\ vendorMemories'[j].consecutiveRejections = 0
                   ELSE OneMappingCreated(corr.fieldName)]_vars

\* the stored correction memories of the vendor key and the field
CorrectionsOf(cm, invoice, fieldName) ==
  {j \in 1..Len(cm) :
     cm[j].vendorId = normalizeVendorName(invoice.vendorId) /\ cm[j].fieldName = fieldName}

\* C14: on a correct feedback that reaches creation for a field without a
\* distinct original label, a new CorrectionMemory with confidence 0.6 is
\* created and none is merged: the vendor and the field have one correction
\* memory more than before, whatever was stored, so that n repetitions of a
\* correction leave n correction memories.
C14_CorrectionAlwaysCreated ==
  [][\A id \in InvoiceIds :
       Corrected(id) =>
         \A i \in 1..Len(last'.feedback.corrections) :
           LET corr == last'.feedback.corrections[i]
           IN (ReachesCreation(corr) /\ ~IsMappingField(Invoice(id), corr))
                => /\ Cardinality(CorrectionsOf(correctionMemories', Invoice(id),
                                                 corr.fieldName))
                        = Cardinality(CorrectionsOf(correctionMemories, Invoice(id),
                                                    corr.fieldName)) + 1
                   /\ \E r \in CreatedFor(corr.fieldName) :
                        /\ r.memoryType = "correction"
                        /\ r.memoryId \notin 1..Len(correctionMemories)
                        /\ r.memoryId \in CorrectionsOf(correctionMemories', Invoice(id),
                                                        corr.fieldName)
                        /\ correctionMemories'[r.memoryId].confidence = 600000
                        /\ correctionMemories'[r.memoryId].isActive
                        /\ correctionMemories'[r.memoryId].correctedValue
                             = StringOf(corr.correctedValue)]_vars

\* the PO number of INV-1 was corrected to PO-1 three times, no pass between:
\* three correction memories of the vendor and the field, each at 0.6
C14_Witness ==
  /\ calls = 3
  /\ last.op = "learnFromFeedback" /\ last.invoiceId = "INV-1"
  /\ last.feedback = Feedback("correct", TRUE, <<CorrPO1>>)
  /\ last.contributing = <<>>
  /\ Len(correctionMemories) = 3
  /\ \A j \in 1..3 :
       /\ correctionMemories[j].fieldName = "poNumber"
       /\ correctionMemories[j].vendorId = normalizeVendorName(VendorAbC)
       /\ correctionMemories[j].correctedValue = <<"P", "O", "-", "1">>
       /\ correctionMemories[j].confidence = 600000

\* C15: in every reachable state there is at most one VendorMemory, active or
\* not, per pair (vendor key, original label).
C15_UniqueVendorLabel ==
  \A i, j \in 1..Len(vendorMemories) :
    (/\ vendorMemories[i].vendorId = vendorMemories[j].vendorId
     /\ vendorMemories[i].originalFieldName = vendorMemories[j].originalFieldName)
      => i = j

\* the mapping of "Leistungsdatum" was deactivated and the correction that
\* had created it came again: the table still holds the one inactive memory
C15_Witness ==
  /\ last.op = "learnFromFeedback" /\ last.invoiceId = "INV-1"
  /\ last.feedback = Feedback("correct", TRUE, <<CorrServiceDate>>)
  /\ last.contributing = <<>>
  /\ Len(vendorMemories) = 1
  /\ ~vendorMemories[1].isActive
  /\ vendorMemories[1].originalFieldName = "Leistungsdatum"

\* C16: learnFromFeedback never fails: whatever the stored memories and the
\* feedback, the call completes and returns a LearningResult with its learn
\* audit entry.
C16_LearnNeverFails ==
  last.op = "learnFromFeedback" => (~last.threw /\ last.auditEntries = 1)

\* C17: a correct feedback without a corrections list is a learn pass that
\* does nothing: no memory is created, updated or deactivated, the call does
\* not fail, and exactly one learn audit entry, with empty result lists behind
\* its three counts, is appended.
C17_ListlessCorrectIsNoOp ==
  [][\A id \in InvoiceIds :
       (Learned(id) /\ last'.feedback.action = "correct" /\ ~last'.feedback.hasCorrections)
         => /\ vendorMemories' = vendorMemories
            /\ correctionMemories' = correctionMemories
            /\ resolutionMemories' = resolutionMemories
            /\ ~last'.threw
            /\ last'.createdMemories = <<>>
            /\ last'.updatedMemories = <<>>
            /\ last'.deactivatedMemories = <<>>
            /\ last'.auditEntries = 1
            /\ auditTrail' = [auditTrail EXCEPT !["learn"] = @ + 1]]_vars

\* INV-1 was processed with a stored correction memory and then given a
\* correct feedback without a list: the memory is as it was, one learn entry
\* was added to the one of the first feedback
C17_Witness ==
  /\ last.op = "learnFromFeedback" /\ last.invoiceId = "INV-1"
  /\ last.feedback = Feedback("correct", FALSE, <<>>)
  /\ last.contributing # <<>>
  /\ last.createdMemories = <<>> /\ last.updatedMemories = <<>>
  /\ last.deactivatedMemories = <<>>
  /\ calls = 3
  /\ auditTrail["learn"] = 2
  /\ Len(correctionMemories) = 1
  /\ correctionMemories[1].confidence = 600000

\* C18 as stated: for every confidence c in [0, 1], reinforce(c) >= c.
C18_ReinforceNeverLowersAsStated ==
  (last.op = "applyReinforcement" /\ last.before >= 0 /\ last.before <= Scale)
    => last.confidence >= last.before

\* C18, amended: for every confidence c in [0, 0.95], reinforce(c) >= c; for c
\* in (0.95, 1], reinforce(c) is 0.95, which is below c.
C18_ReinforceNeverLowers ==
  last.op = "applyReinforcement"
    => /\ (last.before >= 0 /\ last.before <= 950000) => last.confidence >= last.before
       /\ (last.before > 950000 /\ last.before <= Scale)
            => (last.confidence = 950000 /\ last.confidence < last.before)

\* reinforce(0.6) = 0.62
C18_Witness ==
  /\ last.op = "applyReinforcement"
  /\ last.before = 600000
  /\ last.confidence = 620000

\* C19 as stated: starting from a confidence below the cap 0.95, the confidence
\* is still strictly below 0.95 after any number of reinforce applications.
C19_CapNeverReachedAsStated ==
  (last.op = "applyReinforcement" /\ last.start >= 0 /\ last.start < 950000)
    => last.confidence < 950000

\* C19, amended: starting from a confidence in [0, 0.95), each application
\* raises the confidence strictly while it is below the cap and never takes it
\* above the cap; the confidence is 0.95 exactly after 59 applications at
\* most, from 0.6 after the 41st application and no earlier, and stays 0.95.
C19_CapReached ==
  (last.op = "applyReinforcement" /\ last.start >= 0 /\ last.start < 950000)
    => /\ last.confidence <= 950000
       /\ last.before < 950000 => last.confidence > last.before
       /\ last.before = 950000 => last.confidence = 950000
       /\ calls >= 59 => last.confidence = 950000
       /\ last.start = 600000 => (last.confidence = 950000 <=> calls >= 41)

\* the 41st reinforcement of a confidence that started at 0.6 gives 0.95
C19_Witness ==
  /\ last.op = "applyReinforcement"
  /\ last.start = 600000
  /\ calls = 41
  /\ last.before < 950000
  /\ last.confidence = 950000

\* C20: thresholdAction(c) is auto_applied exactly when c >= 0.85, suggested
\* exactly when 0.70 <= c < 0.85, and flagged exactly when c < 0.70: 0.85 and
\* 0.70 belong to the higher action.
C20_ThresholdBoundaries ==
  last.op = "mapConfidenceToAction"
    => /\ last.action \in {"auto_applied", "suggested", "flagged"}
       /\ last.action = "auto_applied" <=> last.confidence >= 850000
       /\ last.action = "suggested"
            <=> (last.confidence >= 700000 /\ last.confidence < 850000)
       /\ last.action = "flagged" <=> last.confidence < 700000

\* thresholdAction(0.85) = auto_applied
C20_Witness ==
  /\ last.op = "mapConfidenceToAction"
  /\ last.confidence = 850000
  /\ last.action = "auto_applied"

\* the pass emitted a po_match pattern
HasPOPattern(result) ==
  \E i \in 1..Len(result.patternStrings) : result.patternStrings[i].type = "po_match"

\* the pass emitted the proposed correction of PO matching
HasPOCorrection(result) ==
  \E i \in 1..Len(result.proposedCorrections) :
    /\ result.proposedCorrections[i].fieldName = "poNumber"
    /\ result.proposedCorrections[i].memoryType = "po-matching-service"

\* the order is of the invoice's vendor, dated 5 days from the invoice, and the
\* invoice's one line item matches one of its items in code and quantity
FiveDayOrder(po, invoice) ==
  /\ trim(toLowerCase(po.vendor)) = trim(toLowerCase(invoice.vendorId))
  /\ Abs(invoice.invoiceDate - po.date) = 5 * TicksPerDay
  /\ Len(lineItemsOf(invoice)) = 1
  /\ qtyMatches(po, lineItemsOf(invoice)[1])

\* C21: in processInvoice, when the normalized record has no PO number after
\* Apply and the best purchase-order match has confidence c, a po_match pattern
\* is emitted exactly when c >= 0.5 and a proposed correction for poNumber
\* exactly when c >= 0.7; an order of the vendor dated 5 days from the invoice
\* with one line item matching in code and quantity gives c > 0.5.
C21_POMatchThresholds ==
  [][\A id \in InvoiceIds \cup POInvoiceIds :
       (Processed(id) /\ ~Truthy(Get(last'.normalizedInvoice, "poNumber")))
         => LET c == findMatchingPO(Invoice(id)).confidence
            IN /\ HasPOPattern(last') <=> compare(c, ratio(5, 10)) >= 0
               /\ HasPOCorrection(last') <=> compare(c, ratio(7, 10)) >= 0
               /\ (\E i \in 1..Len(orders) : FiveDayOrder(orders[i], Invoice(id)))
                    => compare(c, ratio(5, 10)) > 0]_vars

\* INV-4 was processed with PO-12 as the one order of its vendor: the double
\* 0.3 + 0.2 * (1 - 9/30) + 0.3 * 1/5 is below 0.5 and above 0.4999, and
\* neither the pattern nor the correction is emitted
C21_Witness ==
  /\ last.op = "processInvoice" /\ last.invoiceId = "INV-4" /\ ~last.threw
  /\ Len(orders) = 1
  /\ orders[1].poNumber = <<"P", "O", "-", "1", "2">>
  /\ ~Truthy(Get(last.normalizedInvoice, "poNumber"))
  /\ compare(findMatchingPO(Invoice("INV-4")).confidence, ratio(5, 10)) < 0
  /\ compare(findMatchingPO(Invoice("INV-4")).confidence, ratio(4999, 10000)) > 0
  /\ ~HasPOPattern(last)
  /\ ~HasPOCorrection(last)

\* the six signals of makeDecision, read off the pass that returned
DuplicateHit(result) == result.duplicateIds # {}
LowExtraction(invoice) ==
  \E i \in 1..Len(invoice.fields) : invoice.fields[i].extractionConfidence < 600000
Unmatched(result, invoice) ==
  \E i \in 1..Len(invoice.fields) :
    \A k \in 1..Len(result.appliedMemories) :
      result.appliedMemories[k].fieldName # invoice.fields[i].name
LowMemory(result) ==
  \E k \in 1..Len(result.appliedMemories) : result.appliedMemories[k].confidence < 700000
HasCorrections(result) == result.proposedCorrections # <<>>
TaxInclusive(result) ==
  \E i \in 1..Len(result.patternStrings) : result.patternStrings[i].type = "tax_inclusive"

\* C22: requiresHumanReview is true exactly when the duplicate index has a hit
\* on another id, or a field has extraction confidence below 0.6, or an invoice
\* field has no applied-memory trace, or an applied memory has confidence below
\* 0.70, or a correction is proposed, or a tax_inclusive pattern was detected.
C22_ReviewExactlyOnSignal ==
  [][\A id \in DecisionInvoiceIds :
       Processed(id) =>
         (last'.requiresHumanReview
            <=> \/ DuplicateHit(last')
                \/ LowExtraction(Invoice(id))
                \/ Unmatched(last', Invoice(id))
                \/ LowMemory(last')
                \/ HasCorrections(last')
                \/ TaxInclusive(last'))]_vars

\* INV-7 was processed with both mappings and the correction memory approved
\* twenty times: no signal, no review
C22_Witness ==
  /\ last.op = "processInvoice" /\ last.invoiceId = "INV-7"
  /\ Len(last.appliedMemories) = 3
  /\ \A k \in 1..3 : last.appliedMemories[k].confidence >= 850000
  /\ ~last.requiresHumanReview

\* C23: every signal that forces review contributes a reasoning fragment:
\* whenever requiresHumanReview is true the reasoning holds, after the leading
\* summary sentence, at least one fragment naming a cause, also when review is
\* forced by nothing but an applied memory below the suggestion threshold.
C23_ReviewHasReason ==
  [][\A id \in DecisionInvoiceIds :
       (Processed(id) /\ last'.requiresHumanReview)
         => /\ Len(last'.reasoning) >= 2
            /\ last'.reasoning[1] = "Human review required."]_vars

\* the reasoning opens with the auto-accept recommendation
AutoAcceptRecommended(result) ==
  /\ result.reasoning # <<>>
  /\ result.reasoning[1] = "All fields high confidence. Auto-accept recommended."

\* every invoice field has an applied memory with confidence at least 0.85
EveryFieldHigh(result, invoice) ==
  \A i \in 1..Len(invoice.fields) :
    \E k \in 1..Len(result.appliedMemories) :
      /\ result.appliedMemories[k].fieldName = invoice.fields[i].name
      /\ result.appliedMemories[k].confidence >= 850000

\* C24: the auto-accept recommendation is prepended to the reasoning only when
\* review is not forced and every invoice field has an applied memory with
\* confidence at least 0.85; never when the best applied memory of some field
\* is below 0.85.
C24_AutoAcceptOnlyWhenAllHigh ==
  [][\A id \in DecisionInvoiceIds :
       (Processed(id) /\ AutoAcceptRecommended(last'))
         => (~last'.requiresHumanReview /\ EveryFieldHigh(last', Invoice(id)))]_vars

\* no field of the invoice has an applied-memory trace
NoFieldMatched(result, invoice) ==
  \A i \in 1..Len(invoice.fields), k \in 1..Len(result.appliedMemories) :
    result.appliedMemories[k].fieldName # invoice.fields[i].name

\* C25: the overall confidence is within [0, 1], is 0 for an invoice with no
\* fields, and is strictly below the suggestion threshold 0.70 for an invoice
\* none of whose fields has an applied memory, whatever the extraction
\* confidences.
C25_OverallConfidence ==
  [][\A id \in DecisionInvoiceIds :
       Processed(id) =>
         /\ last'.confidenceScore >= 0 /\ last'.confidenceScore <= Scale
         /\ Invoice(id).fields = <<>> => last'.confidenceScore = 0
         /\ NoFieldMatched(last', Invoice(id)) => last'.confidenceScore < 700000]_vars

\* INV-7, both fields extracted at 0.78, was processed with no memory stored:
\* each field counts 0.69 and so does the mean
C25_Witness ==
  /\ last.op = "processInvoice" /\ last.invoiceId = "INV-7"
  /\ last.appliedMemories = <<>>
  /\ \A i \in 1..Len(Invoice("INV-7").fields) :
       Invoice("INV-7").fields[i].extractionConfidence = 780000
  /\ last.confidenceScore = 690000

\* the pass proposed a correction on behalf of the memory
CorrectionBy(result, memoryType, memoryId) ==
  \E j \in 1..Len(result.proposedCorrections) :
    /\ result.proposedCorrections[j].memoryType = memoryType
    /\ result.proposedCorrections[j].memoryId = memoryId

\* a correction memory of the pass auto-applied its value to the field
AutoCorrected(result, fieldName) ==
  \E k \in 1..Len(result.appliedMemories) :
    /\ result.appliedMemories[k].memoryType = "correction"
    /\ result.appliedMemories[k].fieldName = fieldName
    /\ result.appliedMemories[k].action = "auto_applied"

\* the traces of the vendor memories that wrote a value to the field
VendorWrites(result, fieldName) ==
  {k \in 1..Len(result.appliedMemories) :
     /\ result.appliedMemories[k].memoryType = "vendor"
     /\ result.appliedMemories[k].fieldName = fieldName
     /\ result.appliedMemories[k].action = "auto_applied"
     /\ result.appliedMemories[k].extractedValue # Undefined}

\* the traces of the pass of one kind of memory
TracesOf(result, memoryType) ==
  SelectSeq(result.appliedMemories, LAMBDA m : m.memoryType = memoryType)

\* C26: in Apply a vendor memory writes into the normalized record only when
\* the target field is empty, the extraction succeeds and its action is
\* auto_applied; when the extraction succeeds with the action suggested or
\* flagged the record is left as it is and a correction is proposed; a vendor
\* memory never overwrites a non-empty field; and each recalled vendor memory
\* leaves one applied-memory trace.
C26_VendorMemoryApplication ==
  [][\A id \in DecisionInvoiceIds :
       Processed(id) =>
         LET vms == last'.recalled.vendorMemories
             traces == TracesOf(last', "vendor")
             before == initialNormalized(Invoice(id))
         IN /\ Len(traces) = Len(vms)
            /\ \A i \in 1..Len(vms) :
                 LET f == vms[i].normalizedFieldName
                     tr == traces[i]
                 IN /\ tr.memoryId = vms[i].id /\ tr.fieldName = f
                    /\ tr.confidence = vms[i].confidence
                    /\ tr.action \in {"auto_applied", "suggested", "flagged"}
                    /\ ~IsNullish(Get(before, f))
                         => /\ tr.extractedValue = Undefined
                            /\ ~AutoCorrected(last', f)
                                 => Get(last'.normalizedInvoice, f) = Get(before, f)
                    /\ (tr.extractedValue # Undefined /\ tr.action = "auto_applied")
                         => /\ ~CorrectionBy(last', "vendor", vms[i].id)
                            /\ ~AutoCorrected(last', f)
                                 => Get(last'.normalizedInvoice, f) = tr.extractedValue
                    /\ (tr.extractedValue # Undefined /\ tr.action # "auto_applied")
                         => /\ CorrectionBy(last', "vendor", vms[i].id)
                            /\ (~AutoCorrected(last', f) /\ VendorWrites(last', f) = {})
                                 => Get(last'.normalizedInvoice, f) = Get(before, f)
                    /\ tr.extractedValue = Undefined
                         => ~CorrectionBy(last', "vendor", vms[i].id)
            /\ \A f \in {"serviceDate", "poNumber"} :
                 (/\ Get(last'.normalizedInvoice, f) # Get(before, f)
                  /\ ~AutoCorrected(last', f))
                   => /\ IsNullish(Get(before, f))
                      /\ VendorWrites(last', f) # {}]_vars

\* INV-7 holds a service date and its text the label of the auto-applying
\* mapping: the memory leaves its trace, extracts nothing and the date stays
C26_Witness ==
  /\ last.op = "processInvoice" /\ last.invoiceId = "INV-7"
  /\ Len(last.recalled.vendorMemories) = 1
  /\ last.recalled.vendorMemories[1].originalFieldName = "Leistungsdatum"
  /\ last.appliedMemories = <<AppliedMemory(1, "vendor", "serviceDate", "auto_applied",
                                            last.recalled.vendorMemories[1].confidence,
                                            Undefined)>>
  /\ last.normalizedInvoice["serviceDate"] = Str(<<"2", "0", "2", "4", "-", "0", "2", "-", "0", "1">>)

\* the value of the field when the vendor loop of the pass has ended
AfterVendorLoop(result, before, fieldName) ==
  IF VendorWrites(result, fieldName) = {}
  THEN Get(before, fieldName)
  ELSE result.appliedMemories[CHOOSE k \in VendorWrites(result, fieldName) : TRUE].extractedValue

\* C27: in Apply a recalled correction memory with action auto_applied
\* overwrites its field with its corrected value, one with action suggested
\* leaves the record as it is and proposes a correction, one with action
\* flagged leaves the record as it is and proposes none; each recalled
\* correction memory leaves exactly one applied-memory trace.
C27_CorrectionMemoryApplication ==
  [][\A id \in DecisionInvoiceIds :
       Processed(id) =>
         LET cms == last'.recalled.correctionMemories
             traces == TracesOf(last', "correction")
             before == initialNormalized(Invoice(id))
         IN /\ Len(traces) = Len(cms)
            /\ \A i \in 1..Len(cms) :
                 LET f == cms[i].fieldName
                     tr == traces[i]
                     later == {j \in (i + 1)..Len(cms) :
                                 traces[j].fieldName = f /\ traces[j].action = "auto_applied"}
                 IN /\ tr.memoryId = cms[i].id /\ tr.fieldName = f
                    /\ tr.confidence = cms[i].confidence
                    /\ tr.extractedValue = Str(cms[i].correctedValue)
                    /\ tr.action \in {"auto_applied", "suggested", "flagged"}
                    /\ tr.action = "auto_applied"
                         => /\ ~CorrectionBy(last', "correction", cms[i].id)
                            /\ later = {}
                                 => Get(last'.normalizedInvoice, f) = Str(cms[i].correctedValue)
                    /\ tr.action = "suggested"
                         => /\ \E j \in 1..Len(last'.proposedCorrections) :
                                 /\ last'.proposedCorrections[j].memoryType = "correction"
                                 /\ last'.proposedCorrections[j].memoryId = cms[i].id
                                 /\ last'.proposedCorrections[j].fieldName = f
                                 /\ last'.proposedCorrections[j].suggestedValue =
                                      Str(cms[i].correctedValue)
                            /\ ~AutoCorrected(last', f)
                                 => Get(last'.normalizedInvoice, f) = AfterVendorLoop(last', before, f)
                    /\ tr.action = "flagged"
                         => /\ ~CorrectionBy(last', "correction", cms[i].id)
                            /\ ~AutoCorrected(last', f)
                                 => Get(last'.normalizedInvoice, f) = AfterVendorLoop(last', before, f)]_vars

\* the auto-applying correction replaced the service date INV-7 came with
C27_Witness ==
  /\ last.op = "processInvoice" /\ last.invoiceId = "INV-7"
  /\ Len(last.recalled.correctionMemories) = 1
  /\ TracesOf(last, "correction") =
       <<AppliedMemory(1, "correction", "serviceDate", "auto_applied",
                       last.recalled.correctionMemories[1].confidence,
                       Str(<<"2", "0", "2", "4", "-", "0", "1", "-", "0", "1">>))>>
  /\ last.normalizedInvoice["serviceDate"] = Str(<<"2", "0", "2", "4", "-", "0", "1", "-", "0", "1">>)

\* the pass left a trace of the memory
Contributed(result, memoryType, memoryId) ==
  \E k \in 1..Len(result.appliedMemories) :
    /\ result.appliedMemories[k].memoryType = memoryType
    /\ result.appliedMemories[k].memoryId = memoryId

\* C28 as stated: when the same invoice id is processed twice before its
\* feedback arrives, the learnFromFeedback for the id updates exactly the
\* memories that contributed to the second pass, whatever the feedback, and a
\* memory that contributed to the first pass only is left as it was.
C28_SecondPassOnlyAsStated ==
  [][(/\ calls = MaxReprocessCalls - 1
      /\ last.op = "processInvoice" /\ last.invoiceId = "INV-2"
      /\ last'.op = "learnFromFeedback" /\ last'.invoiceId = "INV-2")
       => /\ \A i \in 1..Len(vendorMemories) :
               vendorMemories'[i] # vendorMemories[i] => Contributed(last, "vendor", i)
          /\ \A i \in 1..Len(correctionMemories) :
               correctionMemories'[i] # correctionMemories[i]
                 => Contributed(last, "correction", i)]_vars

\* C28: when the same invoice id is processed twice before its feedback
\* arrives, the second pass replaces the registration of the first: an approve
\* or a reject for the id updates exactly the memories that contributed to the
\* second pass; a correct updates no stored memory but contributors of the
\* second pass and the active vendor memory that maps the label of a corrected
\* field to the field, which the creation reinforces whether it contributed or
\* not.
C28_SecondPassReplaces ==
  [][(/\ calls = MaxReprocessCalls - 1
      /\ last.op = "processInvoice" /\ last.invoiceId = "INV-2"
      /\ last'.op = "learnFromFeedback" /\ last'.invoiceId = "INV-2")
       => LET corrections == last'.feedback.corrections
              Merged(i) == /\ last'.feedback.action = "correct"
                           /\ \E k \in 1..Len(corrections) :
                                IsMappingOf(vendorMemories[i], Invoice("INV-2"), corrections[k])
          IN /\ \A i \in 1..Len(vendorMemories) :
                  /\ vendorMemories'[i] # vendorMemories[i]
                       => (Contributed(last, "vendor", i) \/ Merged(i))
                  /\ (last'.feedback.action # "correct" /\ Contributed(last, "vendor", i))
                       => vendorMemories'[i] # vendorMemories[i]
             /\ \A i \in 1..Len(correctionMemories) :
                  /\ correctionMemories'[i] # correctionMemories[i]
                       => Contributed(last, "correction", i)
                  /\ (last'.feedback.action # "correct" /\ Contributed(last, "correction", i))
                       => correctionMemories'[i] # correctionMemories[i]]_vars

\* the fresh mapping was in the first pass of INV-2, was rejected with INV-1
\* and fell below the recall threshold, so was not in the second pass: the
\* approval of INV-2 leaves it as the rejection left it
C28_Witness ==
  /\ calls = MaxReprocessCalls
  /\ last.op = "learnFromFeedback" /\ last.invoiceId = "INV-2"
  /\ last.feedback.action = "approve"
  /\ Len(vendorMemories) = 1
  /\ vendorMemories[1].isActive
  /\ vendorMemories[1].confidence = applyPenalty(initialHumanCorrectionConfidence)
  /\ vendorMemories[1].consecutiveRejections = 1
  /\ vendorMemories[1].applicationCount = 0
  /\ ~\E k \in 1..Len(last.contributing) : last.contributing[k].memoryType = "vendor"

\* the two invoices share vendor key and invoice number and their dates lie
\* at most 7 days apart
SameInvoice(id, other) ==
  /\ normalizeVendorName(Invoice(other).vendorId) = normalizeVendorName(Invoice(id).vendorId)
  /\ Invoice(other).invoiceNumber = Invoice(id).invoiceNumber
  /\ Abs(Invoice(other).invoiceDate - Invoice(id).invoiceDate) <= 7 * TicksPerDay

\* C29: every processInvoice call that returns has recorded the invoice in
\* the duplicate-detection index, also when the call itself was flagged as a
\* duplicate, and has left the other records; so the index holds every
\* processed invoice and a third matching invoice lists both earlier ids.
C29_AlwaysRecorded ==
  [][\A id \in DuplicateInvoiceIds :
       Processed(id) =>
         /\ DOMAIN processedInvoices' = DOMAIN processedInvoices \cup {id}
         /\ processedInvoices'[id] =
              [vendorId |-> normalizeVendorName(Invoice(id).vendorId),
               invoiceNumber |-> Invoice(id).invoiceNumber,
               invoiceDate |-> Invoice(id).invoiceDate]
         /\ \A other \in DOMAIN processedInvoices \ {id} :
              /\ processedInvoices'[other] = processedInvoices[other]
              /\ SameInvoice(id, other) => other \in last'.duplicateIds]_vars

\* INV-1 and INV-2 were processed, the second of them flagged as a duplicate
\* of the first, and INV-9, the third call, lists both
C29_Witness ==
  /\ calls = 3
  /\ last.op = "processInvoice" /\ last.invoiceId = "INV-9"
  /\ last.duplicateIds = {"INV-1", "INV-2"}
  /\ DOMAIN processedInvoices = {"INV-1", "INV-2", "INV-9"}

\* an invoice other than id with the vendor key, the number and a calendar
\* day at most 7 from that of id is in the duplicate index
OtherInWindow(id) ==
  \E other \in DOMAIN processedInvoices \ {id} :
    /\ processedInvoices[other].vendorId = normalizeVendorName(Invoice(id).vendorId)
    /\ processedInvoices[other].invoiceNumber = Invoice(id).invoiceNumber
    /\ Abs(dateOf(processedInvoices[other].invoiceDate) - dateOf(Invoice(id).invoiceDate)) <= 7

\* C30: the duplicate check never reports an invoice as a duplicate of
\* itself: however often an id is processed, with no other invoice of the
\* vendor key, invoice number and date window in the index the pass gives no
\* duplicate warning, and the listed ids never include the id of the pass.
C30_NeverOwnDuplicate ==
  [][\A id \in DuplicateInvoiceIds :
       Processed(id) =>
         /\ id \notin last'.duplicateIds
         /\ ~OtherInWindow(id)
              => /\ last'.duplicateIds = {}
                 /\ ~MentionsDuplicate(last'.reasoning)]_vars

\* INV-1 was processed three times and nothing else: its own record is in
\* the index and the third pass reports no duplicate
C30_Witness ==
  /\ calls = 3
  /\ auditTrail["recall"] = 3
  /\ DOMAIN processedInvoices = {"INV-1"}
  /\ last.op = "processInvoice" /\ last.invoiceId = "INV-1"
  /\ last.duplicateIds = {}
  /\ ~MentionsDuplicate(last.reasoning)

\* C31: the recalled correction memories contain each memory id at most
\* once, although the vendor-scoped query returns the global memories too;
\* hence one approve or reject updates each correction memory at most once.
C31_RecalledOnce ==
  [][\A id \in GlobalInvoiceIds :
       /\ Processed(id) =>
            LET cms == last'.recalled.correctionMemories
            IN \A i \in 1..Len(cms), j \in 1..Len(cms) : cms[i].id = cms[j].id => i = j
       /\ (Learned(id) /\ last'.feedback.action \in {"approve", "reject"}) =>
            \A i \in 1..Len(correctionMemories) :
              LET before == correctionMemories[i]
                  after == correctionMemories'[i]
              IN /\ after.applicationCount <= before.applicationCount + 1
                 /\ after.consecutiveRejections <= before.consecutiveRejections + 1
                 /\ last'.feedback.action = "approve"
                      => after.confidence \in {before.confidence,
                                               applyReinforcement(before.confidence)}
                 /\ last'.feedback.action = "reject"
                      => after.confidence \in {before.confidence,
                                               applyPenalty(before.confidence)}]_vars

\* a fresh global memory, which both queries of its field return, was
\* recalled for an invoice and counts one application after the approval
C31_Witness ==
  /\ last.op = "learnFromFeedback" /\ last.feedback.action = "approve"
  /\ \E i \in 1..Len(correctionMemories) :
       /\ correctionMemories[i].vendorId = NullVendor
       /\ correctionMemories[i].applicationCount = 1
       /\ correctionMemories[i].confidence =
            applyReinforcement(initialHumanCorrectionConfidence)
       /\ \E k \in 1..Len(last.contributing) :
            /\ last.contributing[k].memoryType = "correction"
            /\ last.contributing[k].memoryId = i

\* the orders findMatchingPO takes for orders of the vendor of the invoice
SameVendorOrders(invoice) ==
  {i \in 1..Len(orders) :
     trim(toLowerCase(orders[i].vendor)) = trim(toLowerCase(invoice.vendorId))}

\* C32: findMatchingPO returns the order with the highest score among the
\* same-vendor orders, the earliest-inserted one when several share the
\* maximum; the returned confidence is min(score, 1.0), at least 0.3 when an
\* order is returned, and the result is (null, 0, no reasons) exactly when no
\* order of that vendor exists.
C32_BestOrder ==
  (last.op = "findMatchingPO" /\ ~last.result.threw) =>
    LET invoice == Invoice(last.invoiceId)
        same == SameVendorOrders(invoice)
        m == last.result.matchedPO
    IN /\ same = {} <=> m = 0
       /\ m = 0 <=> (last.result.confidence = fromInt(0) /\ last.result.matchReasons = <<>>)
       /\ m # 0 =>
            /\ m \in same
            /\ \A j \in same :
                 /\ compare(poScore(orders[j], invoice), poScore(orders[m], invoice)) <= 0
                 /\ poScore(orders[j], invoice) = poScore(orders[m], invoice) => m <= j
            /\ last.result.confidence =
                 (IF compare(poScore(orders[m], invoice), fromInt(1)) <= 0
                  THEN poScore(orders[m], invoice) ELSE fromInt(1))
            /\ compare(last.result.confidence, ratio(3, 10)) >= 0

\* INV-4 is matched against PO-14, PO-13 and PO-15 in this order: PO-14 scores
\* the double below 0.4, PO-13 and PO-15 score 0.4, and PO-13, the first of
\* the two, is returned
C32_Witness ==
  /\ last.op = "findMatchingPO" /\ last.invoiceId = "INV-4"
  /\ ~last.result.threw
  /\ Len(orders) = 3
  /\ orders[1].poNumber = <<"P", "O", "-", "1", "4">>
  /\ orders[2].poNumber = <<"P", "O", "-", "1", "3">>
  /\ orders[3].poNumber = <<"P", "O", "-", "1", "5">>
  /\ compare(poScore(orders[1], Invoice("INV-4")), ratio(4, 10)) < 0
  /\ compare(poScore(orders[1], Invoice("INV-4")), ratio(3999, 10000)) > 0
  /\ poScore(orders[2], Invoice("INV-4")) = ratio(4, 10)
  /\ poScore(orders[3], Invoice("INV-4")) = ratio(4, 10)
  /\ last.result.matchedPO = 2
  /\ last.result.confidence = ratio(4, 10)

\* the score of PO-11 on INV-10 is 1.1 and the confidence returned is 1.0
C32_Capped ==
  /\ last.op = "findMatchingPO" /\ last.invoiceId = "INV-10"
  /\ ~last.result.threw
  /\ last.result.matchedPO # 0
  /\ compare(poScore(orders[last.result.matchedPO], Invoice("INV-10")), fromInt(1)) > 0
  /\ last.result.confidence = fromInt(1)

\* C33: purchase-order matching compares vendors by the canonical key of
\* every other vendor lookup: an order and an invoice whose vendor names have
\* equal normalizeVendorName values (differing only in letter case, in
\* surrounding whitespace or in runs of inner whitespace) are the same vendor,
\* so the order is scored and one such order is returned.
C33_CanonicalVendorKey ==
  (last.op = "findMatchingPO" /\ ~last.result.threw) =>
    LET invoice == Invoice(last.invoiceId)
        sameKey == {i \in 1..Len(orders) :
                      normalizeVendorName(orders[i].vendor)
                        = normalizeVendorName(invoice.vendorId)}
    IN /\ sameKey = SameVendorOrders(invoice)
       /\ sameKey # {} => last.result.matchedPO \in sameKey

\* C34: when every processInvoice call is followed by the learnFromFeedback
\* call of its invoice before any other processInvoice call, no memory
\* reaches 3 consecutive rejections and no memory is deactivated.
C34_NoDeactivationOnePassAtATime ==
  /\ \A i \in 1..Len(vendorMemories) :
       vendorMemories[i].isActive /\ vendorMemories[i].consecutiveRejections < 3
  /\ \A i \in 1..Len(correctionMemories) :
       correctionMemories[i].isActive /\ correctionMemories[i].consecutiveRejections < 3

\* C35: deactivation is permanent: once the active flag of a memory is
\* cleared no processInvoice or learnFromFeedback call sets it again, and
\* recall does not return the memory afterwards.
C35_DeactivationPermanent ==
  [][/\ \A i \in 1..Len(vendorMemories) :
          ~vendorMemories[i].isActive => ~vendorMemories'[i].isActive
     /\ \A i \in 1..Len(correctionMemories) :
          ~correctionMemories[i].isActive => ~correctionMemories'[i].isActive
     /\ \A id \in PendingInvoiceIds :
          Processed(id) =>
            /\ \A k \in 1..Len(last'.recalled.vendorMemories) :
                 vendorMemories[last'.recalled.vendorMemories[k].id].isActive
            /\ \A k \in 1..Len(last'.recalled.correctionMemories) :
                 correctionMemories[last'.recalled.correctionMemories[k].id].isActive]_vars

\* the mapping was deactivated by three rejections and then reinforced by the
\* approval of a fourth pending pass: its rejections are 0 again and it is
\* still inactive
C35_Witness ==
  /\ last.op = "learnFromFeedback" /\ last.feedback.action = "approve"
  /\ Len(vendorMemories) = 1
  /\ ~vendorMemories[1].isActive
  /\ vendorMemories[1].consecutiveRejections = 0
  /\ \E k \in 1..Len(last.contributing) :
       last.contributing[k].memoryType = "vendor" /\ last.contributing[k].memoryId = 1

\* the stored row a LearningResult entry names
NamedRow(vm, cm, ref) == IF ref.memoryType = "vendor" THEN vm[ref.memoryId] ELSE cm[ref.memoryId]

\* C36: every entry of deactivatedMemories returned by a learnFromFeedback
\* call names a memory that was active before the call and is inactive after
\* it; a memory that was inactive already when the feedback of a pending
\* registration arrives is not reported as deactivated again.
C36_DeactivatedReportedOnce ==
  [][\A id \in PendingInvoiceIds :
       Learned(id) =>
         \A k \in 1..Len(last'.deactivatedMemories) :
           /\ NamedRow(vendorMemories, correctionMemories, last'.deactivatedMemories[k]).isActive
           /\ ~NamedRow(vendorMemories', correctionMemories',
                        last'.deactivatedMemories[k]).isActive]_vars

\* the recalled correction memories that auto-apply a value to the field
AutoApplying(result, fieldName) ==
  {k \in 1..Len(result.recalled.correctionMemories) :
     /\ result.recalled.correctionMemories[k].fieldName = fieldName
     /\ result.recalled.correctionMemories[k].confidence >= autoApplyThreshold}

\* C37: when several recalled correction memories with auto-apply confidence
\* (>= 0.85) target the same field with different corrected values, the value
\* Apply leaves in the normalized record is the corrected value of the one
\* with the highest confidence.
C37_HighestConfidenceWins ==
  [][\A id \in GlobalInvoiceIds :
       Processed(id) =>
         \A f \in {"serviceDate", "poNumber"} :
           LET cms == last'.recalled.correctionMemories
               auto == AutoApplying(last', f)
           IN (\E i \in auto, j \in auto : cms[i].correctedValue # cms[j].correctedValue)
                => \E i \in auto :
                     /\ \A j \in auto : cms[j].confidence <= cms[i].confidence
                     /\ Get(last'.normalizedInvoice, f) = Str(cms[i].correctedValue)]_vars

\* the registration holds the memory with a value it suggested for a
\* corrected field, and the value is not the corrected one
SuggestedOtherwise(contributing, corrections, memoryType, memoryId) ==
  \E k \in 1..Len(contributing), c \in 1..Len(corrections) :
    /\ contributing[k].memoryType = memoryType
    /\ contributing[k].memoryId = memoryId
    /\ contributing[k].fieldName = corrections[c].fieldName
    /\ contributing[k].extractedValue # Undefined
    /\ StringOf(contributing[k].extractedValue) # StringOf(corrections[c].correctedValue)

\* C38: on a correct feedback a contributing memory receives the
\* contradiction penalty only if it had suggested a value for the corrected
\* field and the value differs from the corrected one; a contributing vendor
\* memory that suggested nothing is not penalized.
C38_ContradictionOnlyOnSuggestion ==
  [][\A id \in InvoiceIds :
       (Learned(id) /\ last'.feedback.action = "correct") =>
         /\ \A i \in 1..Len(vendorMemories) :
              vendorMemories'[i].confidence < vendorMemories[i].confidence
                => SuggestedOtherwise(last'.contributing, last'.feedback.corrections,
                                      "vendor", i)
         /\ \A i \in 1..Len(correctionMemories) :
              correctionMemories'[i].confidence < correctionMemories[i].confidence
                => SuggestedOtherwise(last'.contributing, last'.feedback.corrections,
                                      "correction", i)]_vars

\* the field names a feedback corrects
CorrectedFields(feedback) ==
  {feedback.corrections[c].fieldName : c \in 1..Len(feedback.corrections)}

\* C39: a correct feedback changes only memories tied to the corrected
\* fields: every stored memory whose field name (the normalized field name of
\* a vendor memory) is not among the corrected field names keeps its
\* confidence, application count, consecutive rejections and active flag,
\* even if it contributed to the invoice.
C39_CorrectTouchesCorrectedFields ==
  [][\A id \in InvoiceIds :
       (Learned(id) /\ last'.feedback.action = "correct") =>
         /\ \A i \in 1..Len(vendorMemories) :
              vendorMemories[i].normalizedFieldName \notin CorrectedFields(last'.feedback)
                => vendorMemories'[i] = vendorMemories[i]
         /\ \A i \in 1..Len(correctionMemories) :
              correctionMemories[i].fieldName \notin CorrectedFields(last'.feedback)
                => correctionMemories'[i] = correctionMemories[i]]_vars

\* the service date mapping contributed to the invoice, the feedback corrected
\* the PO number only, and the mapping is as it was created
C39_Witness ==
  /\ last.op = "learnFromFeedback" /\ last.feedback.action = "correct"
  /\ CorrectedFields(last.feedback) = {"poNumber"}
  /\ \E k \in 1..Len(last.contributing) :
       /\ last.contributing[k].memoryType = "vendor"
       /\ last.contributing[k].memoryId = 1
       /\ last.contributing[k].fieldName = "serviceDate"
  /\ Len(vendorMemories) >= 1
  /\ vendorMemories[1].normalizedFieldName = "serviceDate"
  /\ vendorMemories[1].confidence = initialHumanCorrectionConfidence
  /\ vendorMemories[1].applicationCount = 0
  /\ vendorMemories[1].consecutiveRejections = 0
  /\ vendorMemories[1].isActive

====
